---- MODULE Spec2Model ----
(***************************************************************************)
(* Seat locking and booking confirmation of the fastapi-learning           *)
(* repository.                                                             *)
(*                                                                         *)
(*   backend_notes/movie_booking_design.py  in-process Seats / Bookings /  *)
(*                                          BookingService                 *)
(*   booking-service/...                    Redis lock endpoint and the    *)
(*                                          SQL booking tables             *)
(*   backend_system_design/hotel_booking_design.py  rooms, stays and the   *)
(*                                          per-room booking lock          *)
(*   backend_notes/parking_system_design.py  spots, tickets and the lot's  *)
(*                                          lock                           *)
(*                                                                         *)
(* Specifications:                                                         *)
(*   Spec        calls of BookingService made one after another, with the  *)
(*               clock advancing between calls                             *)
(*   SpecRead    the calls of Spec with check_seats_availability between   *)
(*               them                                                      *)
(*   SpecSeats   calls of Seats.lock / Seats.unlock / lock_seats /         *)
(*               unlock_seats / check_seats_availability, one after another*)
(*   SpecRace    threads calling Seats.lock / Seats.unlock / lock_seats    *)
(*               directly (no mutex), interleaved statement by statement   *)
(*   SpecSvc     threads calling BookingService.create_booking /           *)
(*               confirm_booking / cancel_booking / get_booking, which     *)
(*               nest BookingService.lock (RLock) and Bookings.lock        *)
(*   SpecRedis   booking-service: the Redis lock endpoint (lock_seat) and  *)
(*               the seat-status read                                      *)
(*   SpecApi     booking-service: create_booking requests (two commits)    *)
(*               interleaved with lock_seat and create_booking_seat        *)
(*   SpecRelease Seats.lock / Seats.unlock beside the Redis lock endpoint  *)
(*   SpecHotel   backend_system_design/hotel_booking_design.py: threads    *)
(*               calling book_room (one Lock per room), and cancel_booking *)
(*   SpecSvcLive the calls of SpecSvc on one seat, the clock standing still*)
(*   SpecSvcFair SpecSvcLive under fair scheduling of the threads          *)
(*   SpecPark    backend_notes/parking_system_design.py: threads calling   *)
(*               park_vehicle and exit_vehicle inside ParkingLot.lock      *)
(***************************************************************************)
EXTENDS Integers, Sequences, FiniteSets, Bags, TLC

\* ------------------------------------------------------------------ bounds
\* The clock advances in steps of TickSeconds, MaxTicks times at most.
MaxTicks == 2
TickSeconds == 150
\* Longest seats_ids list a caller passes.
MaxBatch == 2
\* Most bookings BookingService.bookings holds.
MaxBookings == 2
\* Most calls the threads make on the seats, all together (SpecRace).
MaxRaceCalls == 2
\* Most calls the threads make on the service, all together (SpecSvc).
MaxSvcCalls == 3
\* Most POST /booking_seats requests made while bookings are made (SpecApi).
MaxSeatPosts == 1
\* The last date of the hotel calendar.
MaxDate == 3
\* Most book_room calls the threads make, all together (SpecHotel).
MaxHotelCalls == 3
\* Most tickets park_vehicle issues (SpecPark); the ticket ids are
\* 1..MaxParks in the order of issue.
MaxParks == 3
\* Most locked_seat keys Redis holds at a time while bookings are made (SpecApi).
MaxKeys == 1

\* --------------------------------------------------------------- constants
\* BookingService.__init__(lock_duration_seconds=300)
LockDurationSeconds == 300
\* RATES
RateRegular == 200
RatePremium == 300
RateRecliner == 600

None == "none"
\* None, where a datetime is expected
NoTime == -1
Users == {"u1", "u2"}
Threads == {"t1", "t2"}
\* The seats dict handed to the service (the catalog), and an id it lacks.
SeatIds == {"s1", "s2"}
GhostSeat == "s9"
AllIds == SeatIds \cup {GhostSeat}
SeatType == [s \in SeatIds |-> IF s = "s1" THEN "regular" ELSE "premium"]

Batches == UNION {[1..n -> AllIds] : n \in 1..MaxBatch}
\* The lists the threads of SpecSvc call create_booking with: one seat id.
SvcBatches == [1..1 -> AllIds]
\* The lists create_booking is called with: no seat id twice.
BookingBatches == {ids \in Batches : \A i, j \in DOMAIN ids : ids[i] = ids[j] => i = j}
Range(f) == {f[i] : i \in DOMAIN f}

VARIABLES
  now,        \* datetime.now(), in seconds
  seat,       \* seat_id -> [locked_by, locked_at, lock_expires_at]
  bookings,   \* BookingService.bookings; a booking's id is its position
  cancelled,  \* history: ids of the bookings cancel_booking has succeeded on
  ret,        \* the last call that returned, and what it returned
  pc,         \* thread -> where the thread is in its call
  loc,        \* thread -> the locals of the call it is in
  hist,       \* history: thread -> what its first call returned (none or one record)
  calls,      \* history: the calls made so far, of the kind the specification bounds
  grants,     \* history: seat -> the successful Seats.lock returns not yet unlocked
  svcLock,    \* BookingService.lock (RLock): [owner, count]
  bkLock,     \* booking id -> the thread holding Bookings.lock, or None
  redis_client,  \* core.redis_client.redis_client: TRUE once connected, FALSE for None
  redisKeys,  \* the unexpired locked_seat:* keys, as <<showing, seat, user>>
  bookingRows,   \* table bookings
  seatRows,   \* table booking_seats, a bag of [booking_id, showing_id, seat_id]
  req,        \* create_booking request -> where it is, and its locals
  resp,       \* the response of the step just taken, when it answers a one-step endpoint
  inventory,  \* RoomInventory.bookings: room_id -> list of [ci, co, status]
  roomLock,   \* room_id -> the thread holding Room.lock, or None
  hpc,        \* thread -> where it is in book_room
  hloc,       \* thread -> the locals of its book_room call
  hret,       \* what the book_room call that returned last returned
  hcalls,     \* history: the book_room calls made so far
  spots,      \* spot_id -> [is_available, vehicle] of the ParkingSpot
  active_tickets, \* ParkingLot.active_tickets: ticket_id -> [spot, vehicle, status]
  lotLock,    \* the thread holding ParkingLot.lock, or None
  ppc,        \* thread -> where it is in park_vehicle / exit_vehicle
  ploc,       \* thread -> the locals of its call
  pret,       \* what the parking call that ended last returned or raised
  issued,     \* history: the ticket ids issued so far (uuid4 never repeats)
  exits       \* history: ticket_id -> the exit_vehicle calls that succeeded on it

movieVars == <<now, seat, bookings, cancelled, ret>>
threadVars == <<pc, loc, hist, calls, grants, svcLock, bkLock>>
apiVars == <<redis_client, redisKeys, bookingRows, seatRows, req, resp>>
hotelVars == <<inventory, roomLock, hpc, hloc, hret, hcalls>>
parkVars == <<spots, active_tickets, lotLock, ppc, ploc, pret, issued, exits>>

\* ------------------------------------------------------------------ Seats
\* Seats.__init__
FreeSeat == [locked_by |-> None, locked_at |-> NoTime, lock_expires_at |-> NoTime]

\* Seats.is_locked with the comparison of line 49 turned round
IsLockedInverted(st, t) ==
  IF st.locked_by = None THEN FALSE
  ELSE IF st.lock_expires_at = NoTime THEN TRUE
  ELSE t > st.lock_expires_at

\* Seats.is_locked without the expiry test of line 49
IsLockedNoExpiry(st, t) == st.locked_by # None

\* Seats.is_locked at clock t
IsLocked(st, t) ==
  IF st.locked_by = None THEN FALSE
  ELSE IF st.lock_expires_at = NoTime THEN TRUE
  ELSE t < st.lock_expires_at

\* Seats.lock refusing whenever the seat is locked, by the caller too
LockRefusedOwnerToo(st, user_id, t) == IsLocked(st, t)

\* Seats.lock: the guard that returns False
LockRefused(st, user_id, t) == IsLocked(st, t) /\ st.locked_by # user_id

\* Seats.lock setting an expiry that has already been reached
LockedSeatNoDuration(user_id, t, duration) ==
  [locked_by |-> user_id, locked_at |-> t, lock_expires_at |-> t]

\* Seats.lock: the three assignments
LockedSeat(user_id, t, duration) ==
  [locked_by |-> user_id, locked_at |-> t, lock_expires_at |-> t + duration]

\* Seats.unlock that clears nothing
UnlockedNothing(st, user_id) == st

\* Seats.unlock without the owner test of line 68
UnlockedAnyOwner(st, user_id) == FreeSeat

\* Seats.unlock: the seat afterwards
UnlockedSeat(st, user_id) == IF st.locked_by = user_id THEN FreeSeat ELSE st

\* ------------------------------------------------- BookingService helpers
\* lock_seats, the for loop: from position i on, with the seats ss and the
\* two lists built so far
RECURSIVE LockLoop(_, _, _, _, _, _, _)
LockLoop(user_id, ids, i, ss, locked, failed, t) ==
  IF i > Len(ids) THEN [seats |-> ss, locked |-> locked, failed |-> failed]
  ELSE IF ids[i] \notin DOMAIN ss
    THEN LockLoop(user_id, ids, i + 1, ss, locked, Append(failed, ids[i]), t)
  ELSE IF LockRefused(ss[ids[i]], user_id, t)
    THEN LockLoop(user_id, ids, i + 1, ss, locked, Append(failed, ids[i]), t)
  ELSE LockLoop(user_id, ids, i + 1,
                [ss EXCEPT ![ids[i]] = LockedSeat(user_id, t, LockDurationSeconds)],
                Append(locked, ids[i]), failed, t)

\* unlock_seats / the rollback loop of lock_seats
RECURSIVE UnlockAll(_, _, _, _)
UnlockAll(user_id, ids, i, ss) ==
  IF i > Len(ids) THEN ss
  ELSE IF ids[i] \in DOMAIN ss
    THEN UnlockAll(user_id, ids, i + 1,
                   [ss EXCEPT ![ids[i]] = UnlockedSeat(ss[ids[i]], user_id)])
  ELSE UnlockAll(user_id, ids, i + 1, ss)

\* lock_seats without its rollback loop (lines 170-173 left out)
LockSeatsNoRollback(user_id, ids, ss, t) ==
  LET r == LockLoop(user_id, ids, 1, ss, <<>>, <<>>, t)
  IN IF r.failed # <<>>
       THEN [ok |-> FALSE, list |-> r.failed, seats |-> r.seats]
       ELSE [ok |-> TRUE, list |-> r.locked, seats |-> r.seats]

\* lock_seats as one call: [ok, list, seats]
LockSeats(user_id, ids, ss, t) ==
  LET r == LockLoop(user_id, ids, 1, ss, <<>>, <<>>, t)
  IN IF r.failed # <<>>
       THEN [ok |-> FALSE, list |-> r.failed,
             seats |-> UnlockAll(user_id, r.locked, 1, r.seats)]
       ELSE [ok |-> TRUE, list |-> r.locked, seats |-> r.seats]

\* check_seats_availability without the is_locked test (lines 196-200)
UnavailableUnknownOnly(ids, ss, user_id, t) ==
  LET bad(id) == id \notin DOMAIN ss
  IN SelectSeq(ids, bad)

\* check_seats_availability: the unavailable list
Unavailable(ids, ss, user_id, t) ==
  LET bad(id) ==
        \/ id \notin DOMAIN ss
        \/ /\ id \in DOMAIN ss
           /\ IsLocked(ss[id], t)
           /\ (user_id = None \/ ss[id].locked_by # user_id)
  IN SelectSeq(ids, bad)

\* UniversalSeatStrategy.calculate
Rate(s) ==
  IF SeatType[s] = "regular" THEN RateRegular
  ELSE IF SeatType[s] = "premium" THEN RatePremium
  ELSE IF SeatType[s] = "recliner" THEN RateRecliner
  ELSE 0

\* Bookings.calculate_total_price
RECURSIVE TotalPrice(_, _)
TotalPrice(ids, i) ==
  IF i > Len(ids) THEN 0
  ELSE (IF ids[i] \in SeatIds THEN Rate(ids[i]) ELSE 0) + TotalPrice(ids, i + 1)

\* Bookings.__init__
NewBooking(user_id, ids) ==
  [user_id |-> user_id, seats_ids |-> ids, confirmed |-> FALSE,
   is_paid |-> FALSE, total_price |-> TotalPrice(ids, 1)]

\* What a call returned.
Ret(op, user_id, ids, bid, ok, list, err) ==
  [op |-> op, user |-> user_id, ids |-> ids, bid |-> bid, ok |-> ok,
   list |-> list, err |-> err]
NoRet == Ret("none", None, <<>>, 0, FALSE, <<>>, None)

\* The locals of a thread inside a call: the call, its arguments, the loop
\* index and the two lists of lock_seats.
Loc(op, user_id, ids, bid) ==
  [op |-> op, user |-> user_id, ids |-> ids, bid |-> bid, i |-> 1,
   locked |-> <<>>, failed |-> <<>>, r |-> NoRet]
NoLoc == Loc("none", None, <<>>, 0)

\* BookingService.get_booking; 0 is an id no booking has
BookingIds == 0..MaxBookings
Found(bid) == bid \in 1..Len(bookings)

\* ---------------------------------------------------------------- Spec
\* Calls made one after another; each action is one whole call.

\* Seats.lock(user_id)
SeatLock(u, s) ==
  /\ seat' = IF LockRefused(seat[s], u, now) THEN seat
             ELSE [seat EXCEPT ![s] = LockedSeat(u, now, LockDurationSeconds)]
  /\ ret' = Ret("lock", u, <<s>>, 0, ~LockRefused(seat[s], u, now), <<>>, None)
  /\ UNCHANGED <<now, bookings, cancelled>>

\* Seats.unlock(user_id)
SeatUnlock(u, s) ==
  /\ seat' = [seat EXCEPT ![s] = UnlockedSeat(seat[s], u)]
  /\ ret' = Ret("unlock", u, <<s>>, 0, seat[s].locked_by = u, <<>>, None)
  /\ UNCHANGED <<now, bookings, cancelled>>

\* BookingService.lock_seats(user_id, seats_ids, seats)
LockSeatsCall(u, ids) ==
  LET r == LockSeats(u, ids, seat, now)
  IN /\ seat' = r.seats
     /\ ret' = Ret("lock_seats", u, ids, 0, r.ok, r.list, None)
     /\ UNCHANGED <<now, bookings, cancelled>>

\* BookingService.unlock_seats(user_id, seats_ids, seats)
UnlockSeatsCall(u, ids) ==
  /\ seat' = UnlockAll(u, ids, 1, seat)
  /\ ret' = Ret("unlock_seats", u, ids, 0, TRUE, <<>>, None)
  /\ UNCHANGED <<now, bookings, cancelled>>

\* check_seats_availability clearing the expired locks it comes across
CheckSeatsAvailabilityClearing(u, ids) ==
  LET un == Unavailable(ids, seat, u, now)
  IN /\ ret' = Ret("check", u, ids, 0, Len(un) = 0, un, None)
     /\ seat' = [s \in SeatIds |->
                  IF s \in Range(ids) /\ ~IsLocked(seat[s], now) THEN FreeSeat ELSE seat[s]]
     /\ UNCHANGED <<now, bookings, cancelled>>

\* BookingService.check_seats_availability(seats_ids, seats, user_id)
CheckSeatsAvailability(u, ids) ==
  LET un == Unavailable(ids, seat, u, now)
  IN /\ ret' = Ret("check", u, ids, 0, Len(un) = 0, un, None)
     /\ UNCHANGED <<now, seat, bookings, cancelled>>

\* BookingService.create_booking, lines 211-226, on the seats ss and the
\* bookings bks at clock t: the seats and bookings afterwards, and the result
CreateOutcome(u, ids, ss, bks, t) ==
  LET un == Unavailable(ids, ss, u, t)
      r == LockSeats(u, ids, ss, t)
  IN IF Len(un) # 0
       THEN [seats |-> ss, bookings |-> bks,
             r |-> Ret("create", u, ids, 0, FALSE, un, "unavailable")]
     ELSE IF ~r.ok
       THEN [seats |-> r.seats, bookings |-> bks,
             r |-> Ret("create", u, ids, 0, FALSE, r.list, "lock_failed")]
     ELSE [seats |-> r.seats, bookings |-> Append(bks, NewBooking(u, ids)),
           r |-> Ret("create", u, ids, Len(bks) + 1, TRUE, <<>>, None)]

\* BookingService.create_booking(user, showings, payment_strategy, seats_ids, seats)
CreateBooking(u, ids) ==
  LET o == CreateOutcome(u, ids, seat, bookings, now)
  IN /\ Len(o.bookings) <= MaxBookings
     /\ seat' = o.seats
     /\ bookings' = o.bookings
     /\ ret' = o.r
     /\ UNCHANGED <<now, cancelled>>

\* Bookings.confirm_booking without the assignment to self.confirmed
ConfirmedBookingNotMarked(b) == [b EXCEPT !.is_paid = TRUE]

\* Bookings.confirm_booking
ConfirmedBooking(b) == [b EXCEPT !.confirmed = TRUE, !.is_paid = TRUE]

\* BookingService.confirm_booking(booking_id, user_id)
ConfirmBooking(bid, u) ==
  IF ~Found(bid)
    THEN /\ ret' = Ret("confirm", u, <<>>, bid, FALSE, <<>>, "not_found")
         /\ UNCHANGED <<now, seat, bookings, cancelled>>
  ELSE IF bookings[bid].user_id # u
    THEN /\ ret' = Ret("confirm", u, <<>>, bid, FALSE, <<>>, "unauthorized")
         /\ UNCHANGED <<now, seat, bookings, cancelled>>
  ELSE IF bookings[bid].confirmed
    THEN /\ ret' = Ret("confirm", u, <<>>, bid, FALSE, <<>>, None)
         /\ UNCHANGED <<now, seat, bookings, cancelled>>
  ELSE /\ bookings' = [bookings EXCEPT ![bid] = ConfirmedBooking(@)]
       /\ ret' = Ret("confirm", u, <<>>, bid, TRUE, <<>>, None)
       /\ UNCHANGED <<now, seat, cancelled>>

\* cancel_booking with Bookings.cancel_booking not testing self.confirmed
CancelBookingConfirmedToo(bid, u) ==
  IF ~Found(bid)
    THEN /\ ret' = Ret("cancel", u, <<>>, bid, FALSE, <<>>, "not_found")
         /\ UNCHANGED <<now, seat, bookings, cancelled>>
  ELSE IF bookings[bid].user_id # u
    THEN /\ ret' = Ret("cancel", u, <<>>, bid, FALSE, <<>>, "unauthorized")
         /\ UNCHANGED <<now, seat, bookings, cancelled>>
  ELSE /\ seat' = UnlockAll(bookings[bid].user_id, bookings[bid].seats_ids, 1, seat)
       /\ cancelled' = cancelled \cup {bid}
       /\ ret' = Ret("cancel", u, <<>>, bid, TRUE, <<>>, None)
       /\ UNCHANGED <<now, bookings>>

\* cancel_booking without the owner test of line 255
CancelBookingAnyUser(bid, u) ==
  IF ~Found(bid)
    THEN /\ ret' = Ret("cancel", u, <<>>, bid, FALSE, <<>>, "not_found")
         /\ UNCHANGED <<now, seat, bookings, cancelled>>
  ELSE IF bookings[bid].confirmed
    THEN /\ ret' = Ret("cancel", u, <<>>, bid, FALSE, <<>>, None)
         /\ UNCHANGED <<now, seat, bookings, cancelled>>
  ELSE /\ seat' = UnlockAll(bookings[bid].user_id, bookings[bid].seats_ids, 1, seat)
       /\ cancelled' = cancelled \cup {bid}
       /\ ret' = Ret("cancel", u, <<>>, bid, TRUE, <<>>, None)
       /\ UNCHANGED <<now, bookings>>

\* BookingService.cancel_booking(booking_id, user_id)
CancelBooking(bid, u) ==
  IF ~Found(bid)
    THEN /\ ret' = Ret("cancel", u, <<>>, bid, FALSE, <<>>, "not_found")
         /\ UNCHANGED <<now, seat, bookings, cancelled>>
  ELSE IF bookings[bid].user_id # u
    THEN /\ ret' = Ret("cancel", u, <<>>, bid, FALSE, <<>>, "unauthorized")
         /\ UNCHANGED <<now, seat, bookings, cancelled>>
  ELSE IF bookings[bid].confirmed
    THEN /\ ret' = Ret("cancel", u, <<>>, bid, FALSE, <<>>, None)
         /\ UNCHANGED <<now, seat, bookings, cancelled>>
  ELSE /\ seat' = UnlockAll(bookings[bid].user_id, bookings[bid].seats_ids, 1, seat)
       /\ cancelled' = cancelled \cup {bid}
       /\ ret' = Ret("cancel", u, <<>>, bid, TRUE, <<>>, None)
       /\ UNCHANGED <<now, bookings>>

\* datetime.now() moves on between calls
Tick ==
  /\ now < MaxTicks * TickSeconds
  /\ now' = now + TickSeconds
  /\ ret' = NoRet
  /\ UNCHANGED <<seat, bookings, cancelled>>

\* ---------------------------------------------- booking-service state
\* The showings get_if_showing_exists finds (present and not expired).
Showings == {"A", "B"}
\* A showing id that is not in the table, or whose expires_at has passed.
NoShowing == "X"
\* The showing_id values create_booking requests carry.
ReqShowings == {"A", NoShowing}
\* The create_booking requests (each is one HTTP request).
Reqs == {"r1", "r2"}
\* The seats_ids lists a create_booking request carries.
ApiBatches == UNION {[1..n -> SeatIds] : n \in 1..MaxBatch}

\* request.state.user_id of each request
ReqUser(r) == IF r = "r1" THEN "u1" ELSE "u2"

NoReq == [pc |-> "new", user |-> None, showing |-> None, ids |-> <<>>,
          existing |-> {}, status |-> 0]
NoResp == [op |-> None, status |-> 0, user |-> None, showing |-> None,
           seat |-> None, locked |-> {}]

\* redis_client is None until connect_redis succeeds; the tables are empty.
ApiInit ==
  /\ redis_client = FALSE
  /\ redisKeys = {}
  /\ bookingRows = {}
  /\ seatRows = EmptyBag
  /\ req = [r \in Reqs |-> NoReq]
  /\ resp = NoResp

\* ------------------------------------------------------ hotel design state
\* hotel.rooms, in the order add_room appended them, and each room's type
Rooms == <<"r1", "r2", "r3">>
RoomTypeOf == [r \in {"r1", "r2", "r3"} |-> IF r = "r3" THEN "delux" ELSE "regular"]
RoomTypes == {"regular", "delux", "luxury"}
\* The dates; a stay is check_in_date < check_out_date.
Dates == 1..MaxDate
Stays == {st \in Dates \X Dates : st[1] < st[2]}

NoHLoc == [ci |-> 0, co |-> 0, type |-> None, rooms |-> <<>>, i |-> 1,
           full |-> FALSE, free |-> FALSE]
NoHRet == [t |-> None, ci |-> 0, co |-> 0, type |-> None, room |-> None,
           full |-> FALSE, free |-> FALSE]

\* RoomInventory.__init__, Room.__init__: no bookings, no lock held
HotelInit ==
  /\ inventory = [r \in Range(Rooms) |-> <<>>]
  /\ roomLock = [r \in Range(Rooms) |-> None]
  /\ hpc = [t \in Threads |-> "idle"]
  /\ hloc = [t \in Threads |-> NoHLoc]
  /\ hret = NoHRet
  /\ hcalls = 0

\* ------------------------------------------------------ parking lot state
\* The spots of the lot in the order _find_available_spot meets them (floor
\* by floor), and the class of each.
SpotIds == <<"1-1", "1-2", "2-2">>
SpotClass == [s \in {"1-1", "1-2", "2-2"} |-> IF s = "1-1" THEN "SmallSpot" ELSE "MediumSpot"]
\* The vehicles and their vehicle_type; the lot has no LargeSpot for the truck.
Vehicles == {"bike", "car", "truck"}
\* The gates and their gate_type.
Gates == {"entry", "exit"}
TicketIds == 1..MaxParks

FreeSpot == [is_available |-> TRUE, vehicle |-> None]
NoSnap == [spots |-> <<>>, active_tickets |-> <<>>]
NoPLoc == [op |-> "none", gate |-> None, vehicle |-> None, ticket |-> 0,
           spot |-> None, snap |-> NoSnap]
PRet(t, op, ok, err, l) ==
  [t |-> t, op |-> op, ok |-> ok, err |-> err, gate |-> l.gate,
   vehicle |-> l.vehicle, ticket |-> l.ticket, spot |-> l.spot, snap |-> l.snap]
NoPRet == PRet(None, "none", FALSE, None, NoPLoc)

\* ParkingLot.__init__, ParkingSpot.__init__: every spot free, no ticket
ParkInit ==
  /\ spots = [s \in Range(SpotIds) |-> FreeSpot]
  /\ active_tickets = <<>>
  /\ lotLock = None
  /\ ppc = [t \in Threads |-> "idle"]
  /\ ploc = [t \in Threads |-> NoPLoc]
  /\ pret = NoPRet
  /\ issued = 0
  /\ exits = [id \in TicketIds |-> 0]

MovieInit ==
  /\ now = 0
  /\ seat = [s \in SeatIds |-> FreeSeat]
  /\ bookings = <<>>
  /\ cancelled = {}
  /\ ret = NoRet

ThreadIdle ==
  /\ pc = [t \in Threads |-> "idle"]
  /\ loc = [t \in Threads |-> NoLoc]
  /\ grants = [s \in SeatIds |-> {}]
  /\ hist = [t \in Threads |-> <<>>]
  /\ calls = 0
  /\ svcLock = [owner |-> None, count |-> 0]
  /\ bkLock = [b \in 1..MaxBookings |-> None]

Init == MovieInit /\ ThreadIdle /\ ApiInit /\ HotelInit /\ ParkInit

\* The service's calls: create_booking, confirm_booking, cancel_booking.
Next ==
  \/ \E u \in Users, ids \in BookingBatches : CreateBooking(u, ids) /\ UNCHANGED <<threadVars, apiVars, hotelVars, parkVars>>
  \/ \E u \in Users, bid \in BookingIds : ConfirmBooking(bid, u) /\ UNCHANGED <<threadVars, apiVars, hotelVars, parkVars>>
  \/ \E u \in Users, bid \in BookingIds : CancelBooking(bid, u) /\ UNCHANGED <<threadVars, apiVars, hotelVars, parkVars>>
  \/ Tick /\ UNCHANGED <<threadVars, apiVars, hotelVars, parkVars>>

\* The calls of Spec with check_seats_availability, asked about one seat id,
\* called between them.
NextRead ==
  \/ \E u \in Users, ids \in BookingBatches : CreateBooking(u, ids) /\ UNCHANGED <<threadVars, apiVars, hotelVars, parkVars>>
  \/ \E u \in Users, bid \in BookingIds : ConfirmBooking(bid, u) /\ UNCHANGED <<threadVars, apiVars, hotelVars, parkVars>>
  \/ \E u \in Users, bid \in BookingIds : CancelBooking(bid, u) /\ UNCHANGED <<threadVars, apiVars, hotelVars, parkVars>>
  \/ \E u \in Users \cup {None}, ids \in SvcBatches :
       CheckSeatsAvailability(u, ids) /\ UNCHANGED <<threadVars, apiVars, hotelVars, parkVars>>
  \/ Tick /\ UNCHANGED <<threadVars, apiVars, hotelVars, parkVars>>

\* The calls on the seats themselves, made one after another.
NextSeats ==
  \/ \E u \in Users, s \in SeatIds : SeatLock(u, s) /\ UNCHANGED <<threadVars, apiVars, hotelVars, parkVars>>
  \/ \E u \in Users, s \in SeatIds : SeatUnlock(u, s) /\ UNCHANGED <<threadVars, apiVars, hotelVars, parkVars>>
  \/ \E u \in Users, ids \in Batches : LockSeatsCall(u, ids) /\ UNCHANGED <<threadVars, apiVars, hotelVars, parkVars>>
  \/ \E u \in Users, ids \in Batches : UnlockSeatsCall(u, ids) /\ UNCHANGED <<threadVars, apiVars, hotelVars, parkVars>>
  \/ \E u \in Users \cup {None}, ids \in Batches :
       CheckSeatsAvailability(u, ids) /\ UNCHANGED <<threadVars, apiVars, hotelVars, parkVars>>
  \/ Tick /\ UNCHANGED <<threadVars, apiVars, hotelVars, parkVars>>

\* -------------------------------------------------------------- SpecRace
\* Threads, each on behalf of its own user, call Seats.lock, Seats.unlock and lock_seats with
\* no mutex around them. A step is one read of the seat (the condition of an
\* if) or one write of it (the assignments that follow); what a thread does
\* to its own locals in between is part of the step.

\* The user a thread of SpecRace calls for.
RaceUser(t) == IF t = "t1" THEN "u1" ELSE "u2"

\* The thread returns from its call.
Return(t, r) ==
  /\ pc' = [pc EXCEPT ![t] = "idle"]
  /\ loc' = [loc EXCEPT ![t] = NoLoc]
  /\ hist' = [hist EXCEPT ![t] = IF @ = <<>> THEN <<r>> ELSE @]
  /\ ret' = r

\* lock_seats, lines 158-161: ids missing from the seats dict go to failed_seats
RECURSIVE SkipAbsent(_)
SkipAbsent(l) ==
  IF l.i <= Len(l.ids) /\ l.ids[l.i] \notin SeatIds
    THEN SkipAbsent([l EXCEPT !.i = @ + 1, !.failed = Append(@, l.ids[l.i])])
    ELSE l

\* lock_seats, after one seat: the next seat.lock, the rollback loop, or return
LoopOn(t, l) ==
  IF l.i <= Len(l.ids)
    THEN /\ pc' = [pc EXCEPT ![t] = "lock_check"]
         /\ loc' = [loc EXCEPT ![t] = l]
         /\ ret' = NoRet
         /\ UNCHANGED hist
  ELSE IF l.failed = <<>>
    THEN Return(t, Ret("lock_seats", RaceUser(t), l.ids, 0, TRUE, l.locked, None))
  ELSE IF l.locked = <<>>
    THEN Return(t, Ret("lock_seats", RaceUser(t), l.ids, 0, FALSE, l.failed, None))
  ELSE /\ pc' = [pc EXCEPT ![t] = "unlock_check"]
       /\ loc' = [loc EXCEPT ![t] = [l EXCEPT !.i = 1]]
       /\ ret' = NoRet
       /\ UNCHANGED hist

\* lock_seats, the rollback loop after one seat
RollbackOn(t, l) ==
  IF l.i <= Len(l.locked)
    THEN /\ pc' = [pc EXCEPT ![t] = "unlock_check"]
         /\ loc' = [loc EXCEPT ![t] = l]
         /\ ret' = NoRet
         /\ UNCHANGED hist
    ELSE Return(t, Ret("lock_seats", RaceUser(t), l.ids, 0, FALSE, l.failed, None))

CanCall(t) == pc[t] = "idle" /\ calls < MaxRaceCalls

\* a thread calls seat.lock(user_id)
RaceCallLock(t, s) ==
  /\ CanCall(t)
  /\ pc' = [pc EXCEPT ![t] = "lock_check"]
  /\ loc' = [loc EXCEPT ![t] = Loc("lock", RaceUser(t), <<s>>, 0)]
  /\ ret' = NoRet
  /\ calls' = calls + 1
  /\ UNCHANGED <<now, seat, bookings, cancelled, hist, grants, svcLock, bkLock>>

\* a thread calls seat.unlock(user_id)
RaceCallUnlock(t, s) ==
  /\ CanCall(t)
  /\ pc' = [pc EXCEPT ![t] = "unlock_check"]
  /\ loc' = [loc EXCEPT ![t] = Loc("unlock", RaceUser(t), <<s>>, 0)]
  /\ ret' = NoRet
  /\ calls' = calls + 1
  /\ UNCHANGED <<now, seat, bookings, cancelled, hist, grants, svcLock, bkLock>>

\* a thread calls lock_seats(user_id, seats_ids, seats)
RaceCallLockSeats(t, ids) ==
  /\ CanCall(t)
  /\ LoopOn(t, SkipAbsent(Loc("lock_seats", RaceUser(t), ids, 0)))
  /\ calls' = calls + 1
  /\ UNCHANGED <<now, seat, bookings, cancelled, grants, svcLock, bkLock>>

\* The seat the thread's seat.lock / seat.unlock is on.
Cur(t) ==
  IF pc[t] \in {"unlock_check", "unlock_set"} /\ loc[t].op = "lock_seats"
    THEN loc[t].locked[loc[t].i]
    ELSE loc[t].ids[loc[t].i]

\* Seats.lock, line 56: if self.is_locked() and self.locked_by != user_id
RaceLockCheck(t) ==
  /\ pc[t] = "lock_check"
  /\ IF ~LockRefused(seat[Cur(t)], RaceUser(t), now)
       THEN /\ pc' = [pc EXCEPT ![t] = "lock_set"]
            /\ ret' = NoRet
            /\ UNCHANGED <<loc, hist>>
     ELSE IF loc[t].op = "lock"
       THEN Return(t, Ret("lock", RaceUser(t), loc[t].ids, 0, FALSE, <<>>, None))
     ELSE LoopOn(t, SkipAbsent([loc[t] EXCEPT !.i = @ + 1,
                                              !.failed = Append(@, Cur(t))]))
  /\ UNCHANGED <<now, seat, bookings, cancelled, calls, grants, svcLock, bkLock>>

\* The successful Seats.lock returns on a seat that are still in force, after
\* one more by user_id at clock t.
Granted(g, user_id, t) ==
  {x \in g : x.user # user_id /\ t < x.exp}
    \cup {[user |-> user_id, exp |-> t + LockDurationSeconds]}

\* Seats.lock, lines 58-61: the assignments, return True
RaceLockSet(t) ==
  /\ pc[t] = "lock_set"
  /\ seat' = [seat EXCEPT ![Cur(t)] = LockedSeat(RaceUser(t), now, LockDurationSeconds)]
  /\ grants' = [grants EXCEPT ![Cur(t)] = Granted(@, RaceUser(t), now)]
  /\ IF loc[t].op = "lock"
       THEN Return(t, Ret("lock", RaceUser(t), loc[t].ids, 0, TRUE, <<>>, None))
       ELSE LoopOn(t, SkipAbsent([loc[t] EXCEPT !.i = @ + 1,
                                                !.locked = Append(@, Cur(t))]))
  /\ UNCHANGED <<now, bookings, cancelled, calls, svcLock, bkLock>>

\* Seats.unlock, line 68: if self.locked_by == user_id
RaceUnlockCheck(t) ==
  /\ pc[t] = "unlock_check"
  /\ IF seat[Cur(t)].locked_by = RaceUser(t)
       THEN /\ pc' = [pc EXCEPT ![t] = "unlock_set"]
            /\ ret' = NoRet
            /\ UNCHANGED <<loc, hist>>
     ELSE IF loc[t].op = "unlock"
       THEN Return(t, Ret("unlock", RaceUser(t), loc[t].ids, 0, FALSE, <<>>, None))
     ELSE RollbackOn(t, [loc[t] EXCEPT !.i = @ + 1])
  /\ UNCHANGED <<now, seat, bookings, cancelled, calls, grants, svcLock, bkLock>>

\* Seats.unlock, lines 69-72: the assignments, return True
RaceUnlockSet(t) ==
  /\ pc[t] = "unlock_set"
  /\ seat' = [seat EXCEPT ![Cur(t)] = FreeSeat]
  /\ grants' = [grants EXCEPT ![Cur(t)] = {x \in @ : x.user # RaceUser(t)}]
  /\ IF loc[t].op = "unlock"
       THEN Return(t, Ret("unlock", RaceUser(t), loc[t].ids, 0, TRUE, <<>>, None))
       ELSE RollbackOn(t, [loc[t] EXCEPT !.i = @ + 1])
  /\ UNCHANGED <<now, bookings, cancelled, calls, svcLock, bkLock>>

\* datetime.now() moves on while the threads run
RaceTick ==
  /\ Tick
  /\ UNCHANGED threadVars

NextRace ==
  \/ \E t \in Threads, s \in SeatIds : RaceCallLock(t, s) /\ UNCHANGED <<apiVars, hotelVars, parkVars>>
  \/ \E t \in Threads, s \in SeatIds : RaceCallUnlock(t, s) /\ UNCHANGED <<apiVars, hotelVars, parkVars>>
  \/ \E t \in Threads, ids \in Batches : RaceCallLockSeats(t, ids) /\ UNCHANGED <<apiVars, hotelVars, parkVars>>
  \/ \E t \in Threads : RaceLockCheck(t) /\ UNCHANGED <<apiVars, hotelVars, parkVars>>
  \/ \E t \in Threads : RaceLockSet(t) /\ UNCHANGED <<apiVars, hotelVars, parkVars>>
  \/ \E t \in Threads : RaceUnlockCheck(t) /\ UNCHANGED <<apiVars, hotelVars, parkVars>>
  \/ \E t \in Threads : RaceUnlockSet(t) /\ UNCHANGED <<apiVars, hotelVars, parkVars>>
  \/ RaceTick /\ UNCHANGED <<apiVars, hotelVars, parkVars>>

\* --------------------------------------------------------------- SpecSvc
\* Threads call the service. Every call runs inside `with self.lock` (an
\* RLock); confirm_booking and cancel_booking call get_booking, which takes
\* the RLock again, and then the booking's method, which takes Bookings.lock.

\* The creates under way: create_booking appends to bookings.
Creating == {t \in Threads : pc[t] # "idle" /\ loc[t].op = "create"}

SvcCall(t, l) ==
  /\ pc[t] = "idle"
  /\ calls < MaxSvcCalls
  /\ calls' = calls + 1
  /\ pc' = [pc EXCEPT ![t] = "svc_enter"]
  /\ loc' = [loc EXCEPT ![t] = l]
  /\ ret' = NoRet
  /\ UNCHANGED <<now, seat, bookings, cancelled, hist, grants, svcLock, bkLock>>

\* a thread calls create_booking
SvcCallCreate(t, u, ids) ==
  /\ Len(bookings) + Cardinality(Creating) < MaxBookings
  /\ SvcCall(t, Loc("create", u, ids, 0))

\* a thread calls confirm_booking(booking_id, user_id)
SvcCallConfirm(t, u, bid) == SvcCall(t, Loc("confirm", u, <<>>, bid))

\* a thread calls cancel_booking(booking_id, user_id)
SvcCallCancel(t, u, bid) == SvcCall(t, Loc("cancel", u, <<>>, bid))

\* a thread calls get_booking(booking_id)
SvcCallGet(t, bid) == SvcCall(t, Loc("get", None, <<>>, bid))

\* Lock.acquire of a plain Lock: only when nobody holds it
CanAcquireNotReentrant(l, t) == l.owner = None

\* RLock.acquire goes through: free, or held by the thread itself
CanAcquire(l, t) == l.owner \in {None, t}

\* RLock.acquire: the owner and one more level of nesting
Acquired(l, t) == [owner |-> t, count |-> l.count + 1]
\* RLock.release
Released(l) ==
  IF l.count = 1 THEN [owner |-> None, count |-> 0]
  ELSE [l EXCEPT !.count = @ - 1]

\* `with self.lock:` of create_booking, confirm_booking, cancel_booking, get_booking
SvcEnter(t) ==
  /\ pc[t] = "svc_enter"
  /\ CanAcquire(svcLock, t)
  /\ svcLock' = Acquired(svcLock, t)
  /\ pc' = [pc EXCEPT ![t] = "svc_body"]
  /\ ret' = NoRet
  /\ UNCHANGED <<now, seat, bookings, cancelled, loc, hist, calls, grants, bkLock>>

\* create_booking, lines 211-230, holding the RLock
SvcCreateBody(t) ==
  /\ pc[t] = "svc_body" /\ loc[t].op = "create"
  /\ LET o == CreateOutcome(loc[t].user, loc[t].ids, seat, bookings, now)
     IN /\ seat' = o.seats
        /\ bookings' = o.bookings
        /\ loc' = [loc EXCEPT ![t].r = o.r]
  /\ pc' = [pc EXCEPT ![t] = "svc_exit"]
  /\ ret' = NoRet
  /\ UNCHANGED <<now, cancelled, hist, calls, grants, svcLock, bkLock>>

\* get_booking called by the thread itself: line 234, holding the RLock
SvcGetBody(t) ==
  /\ pc[t] = "svc_body" /\ loc[t].op = "get"
  /\ loc' = [loc EXCEPT ![t].r =
               Ret("get", None, <<>>, loc[t].bid, Found(loc[t].bid), <<>>, None)]
  /\ pc' = [pc EXCEPT ![t] = "svc_exit"]
  /\ ret' = NoRet
  /\ UNCHANGED <<now, seat, bookings, cancelled, hist, calls, grants, svcLock, bkLock>>

\* confirm_booking / cancel_booking call get_booking: its `with self.lock:`
SvcGetEnter(t) ==
  /\ pc[t] = "svc_body" /\ loc[t].op \in {"confirm", "cancel"}
  /\ CanAcquire(svcLock, t)
  /\ svcLock' = Acquired(svcLock, t)
  /\ pc' = [pc EXCEPT ![t] = "get_body"]
  /\ ret' = NoRet
  /\ UNCHANGED <<now, seat, bookings, cancelled, loc, hist, calls, grants, bkLock>>

\* get_booking returns into confirm_booking / cancel_booking, which test the
\* booking and its owner (lines 243-246, 256-259)
SvcGetExit(t) ==
  /\ pc[t] = "get_body"
  /\ svcLock' = Released(svcLock)
  /\ IF ~Found(loc[t].bid)
       THEN /\ loc' = [loc EXCEPT ![t].r =
                 Ret(loc[t].op, loc[t].user, <<>>, loc[t].bid, FALSE, <<>>, "not_found")]
            /\ pc' = [pc EXCEPT ![t] = "svc_exit"]
     ELSE IF bookings[loc[t].bid].user_id # loc[t].user
       THEN /\ loc' = [loc EXCEPT ![t].r =
                 Ret(loc[t].op, loc[t].user, <<>>, loc[t].bid, FALSE, <<>>, "unauthorized")]
            /\ pc' = [pc EXCEPT ![t] = "svc_exit"]
     ELSE /\ pc' = [pc EXCEPT ![t] = "bk_enter"]
          /\ UNCHANGED loc
  /\ ret' = NoRet
  /\ UNCHANGED <<now, seat, bookings, cancelled, hist, calls, grants, bkLock>>

\* `with self.lock:` of Bookings.confirm_booking / Bookings.cancel_booking
BkEnter(t) ==
  /\ pc[t] = "bk_enter"
  /\ bkLock[loc[t].bid] = None
  /\ bkLock' = [bkLock EXCEPT ![loc[t].bid] = t]
  /\ pc' = [pc EXCEPT ![t] = "bk_body"]
  /\ ret' = NoRet
  /\ UNCHANGED <<now, seat, bookings, cancelled, loc, hist, calls, grants, svcLock>>

\* Bookings.confirm_booking, lines 127-132
BkConfirm(t) ==
  /\ pc[t] = "bk_body" /\ loc[t].op = "confirm"
  /\ bookings' = [bookings EXCEPT ![loc[t].bid] = ConfirmedBooking(@)]
  /\ loc' = [loc EXCEPT ![t].r =
       Ret("confirm", loc[t].user, <<>>, loc[t].bid,
           ~bookings[loc[t].bid].confirmed, <<>>, None)]
  /\ pc' = [pc EXCEPT ![t] = "bk_exit"]
  /\ ret' = NoRet
  /\ UNCHANGED <<now, seat, cancelled, hist, calls, grants, svcLock, bkLock>>

\* Bookings.cancel_booking, lines 137-143
BkCancel(t) ==
  /\ pc[t] = "bk_body" /\ loc[t].op = "cancel"
  /\ LET b == bookings[loc[t].bid]
     IN IF b.confirmed
          THEN UNCHANGED <<seat, cancelled>>
          ELSE /\ seat' = UnlockAll(b.user_id, b.seats_ids, 1, seat)
               /\ cancelled' = cancelled \cup {loc[t].bid}
  /\ loc' = [loc EXCEPT ![t].r =
       Ret("cancel", loc[t].user, <<>>, loc[t].bid,
           ~bookings[loc[t].bid].confirmed, <<>>, None)]
  /\ pc' = [pc EXCEPT ![t] = "bk_exit"]
  /\ ret' = NoRet
  /\ UNCHANGED <<now, bookings, hist, calls, grants, svcLock, bkLock>>

\* Bookings.lock is released
BkExit(t) ==
  /\ pc[t] = "bk_exit"
  /\ bkLock' = [bkLock EXCEPT ![loc[t].bid] = None]
  /\ pc' = [pc EXCEPT ![t] = "svc_exit"]
  /\ ret' = NoRet
  /\ UNCHANGED <<now, seat, bookings, cancelled, loc, hist, calls, grants, svcLock>>

\* BookingService.lock is released and the call returns
SvcExit(t) ==
  /\ pc[t] = "svc_exit"
  /\ svcLock' = Released(svcLock)
  /\ Return(t, loc[t].r)
  /\ UNCHANGED <<now, seat, bookings, cancelled, calls, grants, bkLock>>

\* datetime.now() moves on while the threads run
SvcTick ==
  /\ Tick
  /\ UNCHANGED threadVars

NextSvc ==
  \/ \E t \in Threads, u \in Users, ids \in SvcBatches : SvcCallCreate(t, u, ids) /\ UNCHANGED <<apiVars, hotelVars, parkVars>>
  \/ \E t \in Threads, u \in Users, bid \in BookingIds : SvcCallConfirm(t, u, bid) /\ UNCHANGED <<apiVars, hotelVars, parkVars>>
  \/ \E t \in Threads, u \in Users, bid \in BookingIds : SvcCallCancel(t, u, bid) /\ UNCHANGED <<apiVars, hotelVars, parkVars>>
  \/ \E t \in Threads, bid \in BookingIds : SvcCallGet(t, bid) /\ UNCHANGED <<apiVars, hotelVars, parkVars>>
  \/ \E t \in Threads : SvcEnter(t) /\ UNCHANGED <<apiVars, hotelVars, parkVars>>
  \/ \E t \in Threads : SvcCreateBody(t) /\ UNCHANGED <<apiVars, hotelVars, parkVars>>
  \/ \E t \in Threads : SvcGetBody(t) /\ UNCHANGED <<apiVars, hotelVars, parkVars>>
  \/ \E t \in Threads : SvcGetEnter(t) /\ UNCHANGED <<apiVars, hotelVars, parkVars>>
  \/ \E t \in Threads : SvcGetExit(t) /\ UNCHANGED <<apiVars, hotelVars, parkVars>>
  \/ \E t \in Threads : BkEnter(t) /\ UNCHANGED <<apiVars, hotelVars, parkVars>>
  \/ \E t \in Threads : BkConfirm(t) /\ UNCHANGED <<apiVars, hotelVars, parkVars>>
  \/ \E t \in Threads : BkCancel(t) /\ UNCHANGED <<apiVars, hotelVars, parkVars>>
  \/ \E t \in Threads : BkExit(t) /\ UNCHANGED <<apiVars, hotelVars, parkVars>>
  \/ \E t \in Threads : SvcExit(t) /\ UNCHANGED <<apiVars, hotelVars, parkVars>>
  \/ SvcTick /\ UNCHANGED <<apiVars, hotelVars, parkVars>>

\* The steps of a call under way: what a thread does once it is scheduled.
SvcStep(t) ==
  /\ \/ SvcEnter(t) \/ SvcCreateBody(t) \/ SvcGetBody(t) \/ SvcGetEnter(t)
     \/ SvcGetExit(t) \/ BkEnter(t) \/ BkConfirm(t) \/ BkCancel(t)
     \/ BkExit(t) \/ SvcExit(t)
  /\ UNCHANGED <<apiVars, hotelVars, parkVars>>

\* The calls of SpecSvc on one seat, the clock standing still: what matters
\* to the locks is who holds them, not the time.
NextSvcLive ==
  \/ \E t \in Threads, u \in Users : SvcCallCreate(t, u, <<"s1">>) /\ UNCHANGED <<apiVars, hotelVars, parkVars>>
  \/ \E t \in Threads, u \in Users, bid \in BookingIds : SvcCallConfirm(t, u, bid) /\ UNCHANGED <<apiVars, hotelVars, parkVars>>
  \/ \E t \in Threads, u \in Users, bid \in BookingIds : SvcCallCancel(t, u, bid) /\ UNCHANGED <<apiVars, hotelVars, parkVars>>
  \/ \E t \in Threads, bid \in BookingIds : SvcCallGet(t, bid) /\ UNCHANGED <<apiVars, hotelVars, parkVars>>
  \/ \E t \in Threads : SvcEnter(t) /\ UNCHANGED <<apiVars, hotelVars, parkVars>>
  \/ \E t \in Threads : SvcCreateBody(t) /\ UNCHANGED <<apiVars, hotelVars, parkVars>>
  \/ \E t \in Threads : SvcGetBody(t) /\ UNCHANGED <<apiVars, hotelVars, parkVars>>
  \/ \E t \in Threads : SvcGetEnter(t) /\ UNCHANGED <<apiVars, hotelVars, parkVars>>
  \/ \E t \in Threads : SvcGetExit(t) /\ UNCHANGED <<apiVars, hotelVars, parkVars>>
  \/ \E t \in Threads : BkEnter(t) /\ UNCHANGED <<apiVars, hotelVars, parkVars>>
  \/ \E t \in Threads : BkConfirm(t) /\ UNCHANGED <<apiVars, hotelVars, parkVars>>
  \/ \E t \in Threads : BkCancel(t) /\ UNCHANGED <<apiVars, hotelVars, parkVars>>
  \/ \E t \in Threads : BkExit(t) /\ UNCHANGED <<apiVars, hotelVars, parkVars>>
  \/ \E t \in Threads : SvcExit(t) /\ UNCHANGED <<apiVars, hotelVars, parkVars>>

\* ---------------------------------------------------------------- SpecApi
\* connect_redis at startup, when the connection and the ping succeed
ConnectRedis ==
  /\ ~redis_client
  /\ redis_client' = TRUE
  /\ resp' = NoResp
  /\ UNCHANGED <<redisKeys, bookingRows, seatRows, req>>

\* f"locked_seat:{showing_id_str}:{seat_id_str}:{user_id_str}"
LockKey(showing_id, seat_id, user_id) == <<showing_id, seat_id, user_id>>

\* redis_client.keys with a pattern that leaves the showing out
LockedKeysAnyShowing(keys, showing_id) == keys

\* redis_client.keys(f"locked_seat:{showing_id_str}:*")
LockedKeys(keys, showing_id) == {k \in keys : k[1] = showing_id}

Resp(op, status, user_id, showing_id, seat_id, locked) ==
  [op |-> op, status |-> status, user |-> user_id, showing |-> showing_id,
   seat |-> seat_id, locked |-> locked]

\* POST /lock: set the caller's key for 600 s, or delete the caller's key
LockSeatRoute(user_id, showing_id, seat_id, lock_seat) ==
  /\ IF user_id = None
       THEN /\ resp' = Resp("lock_seat", 401, user_id, showing_id, seat_id, {})
            /\ UNCHANGED redisKeys
       ELSE IF ~redis_client
       THEN /\ resp' = Resp("lock_seat", 500, user_id, showing_id, seat_id, {})
            /\ UNCHANGED redisKeys
       ELSE /\ redisKeys' = IF lock_seat
                              THEN redisKeys \cup {LockKey(showing_id, seat_id, user_id)}
                              ELSE redisKeys \ {LockKey(showing_id, seat_id, user_id)}
            /\ resp' = Resp("lock_seat", 201, user_id, showing_id, seat_id, {})
  /\ UNCHANGED <<redis_client, bookingRows, seatRows, req>>

\* Redis drops a key once its ex=600 seconds are over.  The clock of the
\* service is not modelled: a key may expire at any step after it was set.
RedisExpire(k) ==
  /\ k \in redisKeys
  /\ redisKeys' = redisKeys \ {k}
  /\ resp' = NoResp
  /\ UNCHANGED <<redis_client, bookingRows, seatRows, req>>

\* GET /{showing_id} answering without Redis as if no seat were locked
GetAllBookingSeatsFailOpen(showing_id) ==
  /\ resp' = Resp("get_all_booking_seats", 200, None, showing_id, None,
                  IF redis_client THEN LockedKeys(redisKeys, showing_id) ELSE {})
  /\ UNCHANGED <<redis_client, redisKeys, bookingRows, seatRows, req>>

\* GET /{showing_id}: the booked rows and the locked keys of the showing
GetAllBookingSeats(showing_id) ==
  /\ resp' = IF ~redis_client
               THEN Resp("get_all_booking_seats", 500, None, showing_id, None, {})
               ELSE Resp("get_all_booking_seats", 200, None, showing_id, None,
                         LockedKeys(redisKeys, showing_id))
  /\ UNCHANGED <<redis_client, redisKeys, bookingRows, seatRows, req>>

\* get_if_showing_exists: the showing is in the table and has not expired
ShowingExists(showing_id) == showing_id \in Showings

\* get_if_seats_are_already_booked: the requested seats with a row for the showing
SeatsAlreadyBooked(rows, showing_id, ids) ==
  {x.seat_id : x \in {y \in BagToSet(rows) :
                         y.seat_id \in Range(ids) /\ y.showing_id = showing_id}}

\* repository.get_if_seat_is_locked(showing_id): the seats of the showing that
\* have a locked_seat key, whoever holds it
SeatsLocked(keys, showing_id) == {k[2] : k \in LockedKeys(keys, showing_id)}

\* uq_booking_seats_showing_seat, checked at commit: some new row repeats the
\* (showing_id, seat_id) of a stored row or of another new row.
NoUniqueConstraint(rows, showing_id, ids) == FALSE
UniqueViolation(rows, showing_id, ids) ==
  \/ \E x \in BagToSet(rows) : x.showing_id = showing_id /\ x.seat_id \in Range(ids)
  \/ \E i, j \in DOMAIN ids : i # j /\ ids[i] = ids[j]

\* BookingSeat(booking_id, seat_id, showing_id)
BookingSeat(booking_id, showing_id, seat_id) ==
  [booking_id |-> booking_id, showing_id |-> showing_id, seat_id |-> seat_id]

\* db.add_all(booking_seats): the table with one more row per listed seat
RECURSIVE AddAll(_, _, _, _, _)
AddAll(rows, booking_id, showing_id, ids, i) ==
  IF i > Len(ids) THEN rows
  ELSE AddAll(rows (+) SetToBag({BookingSeat(booking_id, showing_id, ids[i])}),
              booking_id, showing_id, ids, i + 1)

Finished(r, status) == [req[r] EXCEPT !.pc = "done", !.existing = {}, !.status = status]

\* create_booking up to the await: the showing check and the booked-seats read
CreateBookingRead(r, user_id, showing_id, ids) ==
  /\ req[r].pc = "new"
  /\ LET q == [req[r] EXCEPT !.user = user_id, !.showing = showing_id, !.ids = ids]
     IN req' = [req EXCEPT ![r] =
          IF ~ShowingExists(showing_id)
            THEN [q EXCEPT !.pc = "done", !.status = 400]
            ELSE [q EXCEPT !.pc = "locked",
                           !.existing = SeatsAlreadyBooked(seatRows, showing_id, ids)]]
  /\ resp' = NoResp
  /\ UNCHANGED <<redis_client, redisKeys, bookingRows, seatRows>>

\* ... the lock read, and the refusal when a seat is booked or locked
CreateBookingCheck(r) ==
  /\ req[r].pc = "locked"
  /\ req' = [req EXCEPT ![r] =
       IF ~redis_client THEN Finished(r, 500)
       ELSE IF req[r].existing # {} \/ SeatsLocked(redisKeys, req[r].showing) # {}
         THEN Finished(r, 400)
         ELSE [req[r] EXCEPT !.pc = "booking"]]
  /\ resp' = NoResp
  /\ UNCHANGED <<redis_client, redisKeys, bookingRows, seatRows>>

\* ... repository.create_booking: the CONFIRMED header row, committed
CreateBookingHeader(r) ==
  /\ req[r].pc = "booking"
  /\ bookingRows' = bookingRows \cup
       {[id |-> r, user_id |-> req[r].user, showing_id |-> req[r].showing,
         status |-> "CONFIRMED"]}
  /\ req' = [req EXCEPT ![r].pc = "seats"]
  /\ resp' = NoResp
  /\ UNCHANGED <<redis_client, redisKeys, seatRows>>

\* ... repository.create_booking_seats: all the seat rows in one commit, which
\* the unique constraint may refuse (IntegrityError, answered with 500)
CreateBookingSeats(r) ==
  /\ req[r].pc = "seats"
  /\ IF UniqueViolation(seatRows, req[r].showing, req[r].ids)
       THEN /\ req' = [req EXCEPT ![r] = Finished(r, 500)]
            /\ UNCHANGED seatRows
       ELSE /\ seatRows' = AddAll(seatRows, r, req[r].showing, req[r].ids, 1)
            /\ req' = [req EXCEPT ![r] = Finished(r, 201)]
  /\ resp' = NoResp
  /\ UNCHANGED <<redis_client, redisKeys, bookingRows>>

\* POST /booking_seats: one row, added and committed
CreateBookingSeat(booking_id, showing_id, seat_id) ==
  /\ IF \/ booking_id \notin {b.id : b \in bookingRows}
        \/ UniqueViolation(seatRows, showing_id, <<seat_id>>)
       THEN /\ resp' = Resp("create_booking_seat", 500, None, showing_id, seat_id, {})
            /\ UNCHANGED seatRows
       ELSE /\ seatRows' = AddAll(seatRows, booking_id, showing_id, <<seat_id>>, 1)
            /\ resp' = Resp("create_booking_seat", 201, None, showing_id, seat_id, {})
  /\ UNCHANGED <<redis_client, redisKeys, bookingRows, req>>

\* The Redis lock endpoint and the seat-status read.
NextRedis ==
  \/ ConnectRedis /\ UNCHANGED <<movieVars, threadVars, hotelVars, parkVars>>
  \/ \E u \in Users \cup {None}, sh \in Showings, s \in SeatIds, f \in BOOLEAN :
       LockSeatRoute(u, sh, s, f) /\ UNCHANGED <<movieVars, threadVars, hotelVars, parkVars>>
  \/ \E k \in redisKeys : RedisExpire(k) /\ UNCHANGED <<movieVars, threadVars, hotelVars, parkVars>>
  \/ \E sh \in Showings : GetAllBookingSeats(sh) /\ UNCHANGED <<movieVars, threadVars, hotelVars, parkVars>>

\* The two lock stores side by side: Seats.lock / Seats.unlock on the
\* in-process seats, and lock / unlock requests to the Redis endpoint for
\* the seats of one showing.
NextRelease ==
  \/ \E u \in Users, s \in SeatIds : SeatLock(u, s) /\ UNCHANGED <<threadVars, apiVars, hotelVars, parkVars>>
  \/ \E u \in Users, s \in SeatIds : SeatUnlock(u, s) /\ UNCHANGED <<threadVars, apiVars, hotelVars, parkVars>>
  \/ Tick /\ UNCHANGED <<threadVars, apiVars, hotelVars, parkVars>>
  \/ ConnectRedis /\ UNCHANGED <<movieVars, threadVars, hotelVars, parkVars>>
  \/ \E u \in Users \cup {None}, sh \in ReqShowings \cap Showings, s \in SeatIds, f \in BOOLEAN :
       LockSeatRoute(u, sh, s, f) /\ UNCHANGED <<movieVars, threadVars, hotelVars, parkVars>>
  \/ \E k \in redisKeys : RedisExpire(k) /\ UNCHANGED <<movieVars, threadVars, hotelVars, parkVars>>

\* Bookings being made while seats are locked and unlocked.
NextApi ==
  \/ ConnectRedis /\ UNCHANGED <<movieVars, threadVars, hotelVars, parkVars>>
  \/ \E u \in Users, sh \in ReqShowings \cap Showings, s \in SeatIds, f \in BOOLEAN :
       /\ f => Cardinality(redisKeys \cup {LockKey(sh, s, u)}) <= MaxKeys
       /\ ~f => LockKey(sh, s, u) \in redisKeys
       /\ LockSeatRoute(u, sh, s, f)
       /\ UNCHANGED <<movieVars, threadVars, hotelVars, parkVars>>
  \/ \E k \in redisKeys : RedisExpire(k) /\ UNCHANGED <<movieVars, threadVars, hotelVars, parkVars>>
  \/ \E r \in Reqs, sh \in ReqShowings, ids \in ApiBatches :
       CreateBookingRead(r, ReqUser(r), sh, ids) /\ UNCHANGED <<movieVars, threadVars, hotelVars, parkVars>>
  \/ \E r \in Reqs : CreateBookingCheck(r) /\ UNCHANGED <<movieVars, threadVars, hotelVars, parkVars>>
  \/ \E r \in Reqs : CreateBookingHeader(r) /\ UNCHANGED <<movieVars, threadVars, hotelVars, parkVars>>
  \/ \E r \in Reqs : CreateBookingSeats(r) /\ UNCHANGED <<movieVars, threadVars, hotelVars, parkVars>>
  \/ \E b \in Reqs, sh \in Showings, s \in SeatIds :
       /\ calls < MaxSeatPosts
       /\ calls' = calls + 1
       /\ CreateBookingSeat(b, sh, s)
       /\ UNCHANGED <<movieVars, pc, loc, hist, grants, svcLock, bkLock, hotelVars, parkVars>>

\* -------------------------------------------------------------- SpecHotel
\* hotel_booking_design.py: BookingService.book_room run by the threads, one
\* step per lock acquisition, availability test and insertion, and
\* cancel_booking, which takes no lock.

\* RoomInventory.is_available: no booking of the room that is not cancelled
\* overlaps [check_in, check_out)
IsAvailable(inv, r, ci, co) ==
  \A i \in DOMAIN inv[r] :
    inv[r][i].status # "canceled" =>
      (co <= inv[r][i].ci \/ ci >= inv[r][i].co)

\* Hotel.get_rooms_by_type: the rooms of the type, in hotel.rooms order
GetRoomsByType(type) ==
  SelectSeq(Rooms, LAMBDA r : RoomTypeOf[r] = type)

\* History kept with a call in progress: whether at some instant since it
\* was entered every room of its type had a conflicting booking (full), and
\* whether at some instant one of them had none (free).
Observed(l, inv) ==
  IF l.type = None THEN l
  ELSE LET busy == {r \in Range(l.rooms) : ~IsAvailable(inv, r, l.ci, l.co)}
       IN [l EXCEPT !.full = l.full \/ busy = Range(l.rooms),
                    !.free = l.free \/ busy # Range(l.rooms)]

ObservedAll(locs, inv) == [t \in Threads |-> Observed(locs[t], inv)]

HRet(t, l, room) ==
  [t |-> t, ci |-> l.ci, co |-> l.co, type |-> l.type, room |-> room,
   full |-> l.full, free |-> l.free]

\* book_room is entered: the for loop starts on the rooms of the type; with
\* no such room the loop body never runs and the call returns None
BookRoomCall(t, ci, co, type) ==
  /\ hpc[t] = "idle"
  /\ hcalls < MaxHotelCalls
  /\ hcalls' = hcalls + 1
  /\ LET l == Observed([NoHLoc EXCEPT !.ci = ci, !.co = co, !.type = type,
                                       !.rooms = GetRoomsByType(type)],
                       inventory)
     IN IF l.rooms = <<>>
        THEN /\ hret' = HRet(t, l, None)
             /\ UNCHANGED <<hpc, hloc>>
        ELSE /\ hpc' = [hpc EXCEPT ![t] = "acquire"]
             /\ hloc' = [hloc EXCEPT ![t] = l]
             /\ hret' = NoHRet
  /\ UNCHANGED <<inventory, roomLock>>

\* `with room.lock:` can be entered
RoomLockFree(r) == roomLock[r] = None

\* `with room.lock:` is entered for the room the loop is at
BookRoomAcquire(t) ==
  /\ hpc[t] = "acquire"
  /\ LET r == hloc[t].rooms[hloc[t].i]
     IN /\ RoomLockFree(r)
        /\ roomLock' = [roomLock EXCEPT ![r] = t]
  /\ hpc' = [hpc EXCEPT ![t] = "check"]
  /\ hret' = NoHRet
  /\ UNCHANGED <<inventory, hloc, hcalls>>

\* `if self.inventory.is_available(...)`: when it is not, the with block is
\* left, and the loop moves to the next room or ends and None is returned
BookRoomCheck(t) ==
  /\ hpc[t] = "check"
  /\ LET l == hloc[t]
         r == l.rooms[l.i]
     IN IF IsAvailable(inventory, r, l.ci, l.co)
        THEN /\ hpc' = [hpc EXCEPT ![t] = "add"]
             /\ hret' = NoHRet
             /\ UNCHANGED <<roomLock, hloc>>
        ELSE /\ roomLock' = [roomLock EXCEPT ![r] = IF @ = t THEN None ELSE @]
             /\ IF l.i < Len(l.rooms)
                THEN /\ hpc' = [hpc EXCEPT ![t] = "acquire"]
                     /\ hloc' = [hloc EXCEPT ![t].i = l.i + 1]
                     /\ hret' = NoHRet
                ELSE /\ hpc' = [hpc EXCEPT ![t] = "idle"]
                     /\ hloc' = [hloc EXCEPT ![t] = NoHLoc]
                     /\ hret' = HRet(t, l, None)
  /\ UNCHANGED <<inventory, hcalls>>

\* Booking(...), inventory.add_booking(booking), return booking: the with
\* block is left by the return
BookRoomAdd(t) ==
  /\ hpc[t] = "add"
  /\ LET l == hloc[t]
         r == l.rooms[l.i]
         inv == [inventory EXCEPT
                   ![r] = Append(@, [ci |-> l.ci, co |-> l.co, status |-> "confirmed"])]
         locs == ObservedAll([hloc EXCEPT ![t] = NoHLoc], inv)
     IN /\ inventory' = inv
        /\ roomLock' = [roomLock EXCEPT ![r] = IF @ = t THEN None ELSE @]
        /\ hloc' = locs
        /\ hret' = HRet(t, l, r)
  /\ hpc' = [hpc EXCEPT ![t] = "idle"]
  /\ UNCHANGED hcalls

\* BookingService.cancel_booking(booking): the status is set, no lock taken
HotelCancelBooking(r, i) ==
  /\ i \in DOMAIN inventory[r]
  /\ inventory[r][i].status = "confirmed"
  /\ inventory' = [inventory EXCEPT ![r][i].status = "canceled"]
  /\ hloc' = ObservedAll(hloc, inventory')
  /\ hret' = NoHRet
  /\ UNCHANGED <<roomLock, hpc, hcalls>>

NextHotel ==
  \/ \E t \in Threads, st \in Stays, type \in RoomTypes :
       BookRoomCall(t, st[1], st[2], type) /\ UNCHANGED <<movieVars, threadVars, apiVars, parkVars>>
  \/ \E t \in Threads : BookRoomAcquire(t) /\ UNCHANGED <<movieVars, threadVars, apiVars, parkVars>>
  \/ \E t \in Threads : BookRoomCheck(t) /\ UNCHANGED <<movieVars, threadVars, apiVars, parkVars>>
  \/ \E t \in Threads : BookRoomAdd(t) /\ UNCHANGED <<movieVars, threadVars, apiVars, parkVars>>
  \/ \E r \in Range(Rooms), i \in 1..MaxHotelCalls :
       HotelCancelBooking(r, i) /\ UNCHANGED <<movieVars, threadVars, apiVars, parkVars>>

\* --------------------------------------------------------------- SpecPark
\* parking_system_design.py: ParkingLot.park_vehicle and exit_vehicle run by
\* the threads, one step per statement that reads or writes the spots or the
\* tickets, inside ParkingLot.lock.

\* SmallSpot / MediumSpot / LargeSpot.can_fit
CanFit(s, vehicle) ==
  \/ SpotClass[s] = "SmallSpot" /\ vehicle = "bike"
  \/ SpotClass[s] = "MediumSpot" /\ vehicle = "car"
  \/ SpotClass[s] = "LargeSpot" /\ vehicle = "truck"

\* _find_available_spot / get_available_spots: the first spot, floor by
\* floor, that is available and fits; None when there is none
FindAvailableSpot(sp, vehicle) ==
  LET fit == SelectSeq(SpotIds, LAMBDA s : sp[s].is_available /\ CanFit(s, vehicle))
  IN IF fit = <<>> THEN None ELSE fit[1]

\* ParkingSpot.park: the two assignments
ParkedSpot(vehicle) == [is_available |-> FALSE, vehicle |-> vehicle]

\* ParkingSpot.release forgetting is_available
ReleasedSpotStillTaken == [is_available |-> FALSE, vehicle |-> None]

\* ParkingSpot.release: the two assignments
ReleasedSpot == [is_available |-> TRUE, vehicle |-> None]

\* ParkingTicket.__init__
ParkingTicket(s, vehicle) == [spot |-> s, vehicle |-> vehicle, status |-> "active"]

\* self.active_tickets[ticket_id] = ticket
WithTicket(at, id, ticket) ==
  [i \in DOMAIN at \cup {id} |-> IF i = id THEN ticket ELSE at[i]]

\* exit_vehicle without the del of line 193
WithoutTicketKept(at, id) == at

\* del self.active_tickets[ticket_id]
WithoutTicket(at, id) == [i \in DOMAIN at \ {id} |-> at[i]]

\* The park_vehicle calls under way: each may still issue a ticket.
Parking == {t \in Threads : ppc[t] # "idle" /\ ploc[t].op = "park"}

\* The call ends, by return or by raise; `with self.lock` is left if held.
PEnd(t, ok, err, l) ==
  /\ ppc' = [ppc EXCEPT ![t] = "idle"]
  /\ ploc' = [ploc EXCEPT ![t] = NoPLoc]
  /\ lotLock' = IF lotLock = t THEN None ELSE lotLock
  /\ pret' = PRet(t, l.op, ok, err, l)

\* park_vehicle(gate, vehicle) is called: the gate test of lines 153-154
ParkCall(t, gate, vehicle) ==
  /\ ppc[t] = "idle"
  /\ issued + Cardinality(Parking) < MaxParks
  /\ LET l == [NoPLoc EXCEPT !.op = "park", !.gate = gate, !.vehicle = vehicle]
     IN IF gate # "entry"
          THEN PEnd(t, FALSE, "Invalid gate type", l)
          ELSE /\ ppc' = [ppc EXCEPT ![t] = "enter"]
               /\ ploc' = [ploc EXCEPT ![t] = l]
               /\ pret' = NoPRet
               /\ UNCHANGED lotLock
  /\ UNCHANGED <<spots, active_tickets, issued, exits>>

\* exit_vehicle(ticket_id, gate) is called: the gate test of lines 173-174
ExitCall(t, id, gate) ==
  /\ ppc[t] = "idle"
  /\ LET l == [NoPLoc EXCEPT !.op = "exit", !.gate = gate, !.ticket = id]
     IN IF gate # "exit"
          THEN PEnd(t, FALSE, "Invalid gate type", l)
          ELSE /\ ppc' = [ppc EXCEPT ![t] = "enter"]
               /\ ploc' = [ploc EXCEPT ![t] = l]
               /\ pret' = NoPRet
               /\ UNCHANGED lotLock
  /\ UNCHANGED <<spots, active_tickets, issued, exits>>

\* `with self.lock:` can be entered
LotLockFree == lotLock = None

\* `with self.lock:` of park_vehicle and exit_vehicle is entered; the spots
\* and tickets found there are kept for the record of the call
LotEnter(t) ==
  /\ ppc[t] = "enter"
  /\ LotLockFree
  /\ lotLock' = t
  /\ ppc' = [ppc EXCEPT ![t] = IF ploc[t].op = "park" THEN "find" ELSE "lookup"]
  /\ ploc' = [ploc EXCEPT ![t].snap = [spots |-> spots, active_tickets |-> active_tickets]]
  /\ pret' = NoPRet
  /\ UNCHANGED <<spots, active_tickets, issued, exits>>

\* park_vehicle lines 156-159: _find_available_spot, 'No available spot'
ParkFind(t) ==
  /\ ppc[t] = "find"
  /\ LET s == FindAvailableSpot(spots, ploc[t].vehicle)
     IN IF s = None
          THEN PEnd(t, FALSE, "No available spot", ploc[t])
          ELSE /\ ppc' = [ppc EXCEPT ![t] = "park"]
               /\ ploc' = [ploc EXCEPT ![t].spot = s]
               /\ pret' = NoPRet
               /\ UNCHANGED lotLock
  /\ UNCHANGED <<spots, active_tickets, issued, exits>>

\* park_vehicle line 161: spot.park(vehicle), 'slot is already taken'
ParkSpot(t) ==
  /\ ppc[t] = "park"
  /\ LET s == ploc[t].spot
     IN IF ~spots[s].is_available
          THEN /\ PEnd(t, FALSE, "slot is already taken", ploc[t])
               /\ UNCHANGED spots
          ELSE /\ spots' = [spots EXCEPT ![s] = ParkedSpot(ploc[t].vehicle)]
               /\ ppc' = [ppc EXCEPT ![t] = "ticket"]
               /\ pret' = NoPRet
               /\ UNCHANGED <<ploc, lotLock>>
  /\ UNCHANGED <<active_tickets, issued, exits>>

\* park_vehicle lines 163-169: the ticket with a fresh id is stored and returned
ParkTicket(t) ==
  /\ ppc[t] = "ticket"
  /\ issued' = issued + 1
  /\ active_tickets' = WithTicket(active_tickets, issued + 1,
                                  ParkingTicket(ploc[t].spot, ploc[t].vehicle))
  /\ PEnd(t, TRUE, None, [ploc[t] EXCEPT !.ticket = issued + 1])
  /\ UNCHANGED <<spots, exits>>

\* exit_vehicle lines 176-186: the ticket is looked up ('Ticket not found',
\* 'Ticket is not active'), marked PAID and priced
ExitLookup(t) ==
  /\ ppc[t] = "lookup"
  /\ LET id == ploc[t].ticket
     IN IF id \notin DOMAIN active_tickets
          THEN /\ PEnd(t, FALSE, "Ticket not found", ploc[t])
               /\ UNCHANGED active_tickets
        ELSE IF active_tickets[id].status # "active"
          THEN /\ PEnd(t, FALSE, "Ticket is not active", ploc[t])
               /\ UNCHANGED active_tickets
        ELSE /\ active_tickets' = [active_tickets EXCEPT ![id].status = "paid"]
             /\ ppc' = [ppc EXCEPT ![t] = "release"]
             /\ ploc' = [ploc EXCEPT ![t].spot = active_tickets[id].spot,
                                     ![t].vehicle = active_tickets[id].vehicle]
             /\ pret' = NoPRet
             /\ UNCHANGED lotLock
  /\ UNCHANGED <<spots, issued, exits>>

\* exit_vehicle line 191: ticket.parking_spot.release()
ExitRelease(t) ==
  /\ ppc[t] = "release"
  /\ spots' = [spots EXCEPT ![ploc[t].spot] = ReleasedSpot]
  /\ ppc' = [ppc EXCEPT ![t] = "delete"]
  /\ pret' = NoPRet
  /\ UNCHANGED <<active_tickets, lotLock, ploc, issued, exits>>

\* exit_vehicle lines 193-195: the ticket is deleted and the amount returned
ExitDelete(t) ==
  /\ ppc[t] = "delete"
  /\ active_tickets' = WithoutTicket(active_tickets, ploc[t].ticket)
  /\ exits' = [exits EXCEPT ![ploc[t].ticket] = @ + 1]
  /\ PEnd(t, TRUE, None, ploc[t])
  /\ UNCHANGED <<spots, issued>>

NextPark ==
  \/ \E t \in Threads, g \in Gates, v \in Vehicles :
       ParkCall(t, g, v) /\ UNCHANGED <<movieVars, threadVars, apiVars, hotelVars>>
  \/ \E t \in Threads, id \in TicketIds, g \in Gates :
       ExitCall(t, id, g) /\ UNCHANGED <<movieVars, threadVars, apiVars, hotelVars>>
  \/ \E t \in Threads : LotEnter(t) /\ UNCHANGED <<movieVars, threadVars, apiVars, hotelVars>>
  \/ \E t \in Threads : ParkFind(t) /\ UNCHANGED <<movieVars, threadVars, apiVars, hotelVars>>
  \/ \E t \in Threads : ParkSpot(t) /\ UNCHANGED <<movieVars, threadVars, apiVars, hotelVars>>
  \/ \E t \in Threads : ParkTicket(t) /\ UNCHANGED <<movieVars, threadVars, apiVars, hotelVars>>
  \/ \E t \in Threads : ExitLookup(t) /\ UNCHANGED <<movieVars, threadVars, apiVars, hotelVars>>
  \/ \E t \in Threads : ExitRelease(t) /\ UNCHANGED <<movieVars, threadVars, apiVars, hotelVars>>
  \/ \E t \in Threads : ExitDelete(t) /\ UNCHANGED <<movieVars, threadVars, apiVars, hotelVars>>

vars == <<movieVars, threadVars, apiVars, hotelVars, parkVars>>

Spec == Init /\ [][Next]_vars
SpecSeats == Init /\ [][NextSeats]_vars
SpecRead == Init /\ [][NextRead]_vars
SpecRace == Init /\ [][NextRace]_vars
SpecSvc == Init /\ [][NextSvc]_vars
\* Fair scheduling: a thread whose next step stays possible takes it. Nothing
\* obliges a thread to make a call, or the clock to move.
SpecSvcFair == Init /\ [][NextSvcLive]_vars /\ \A t \in Threads : WF_vars(SvcStep(t))
\* The same calls with nothing said about scheduling.
SpecSvcLive == Init /\ [][NextSvcLive]_vars
SpecRedis == Init /\ [][NextRedis]_vars
SpecApi == Init /\ [][NextApi]_vars
SpecRelease == Init /\ [][NextRelease]_vars
SpecHotel == Init /\ [][NextHotel]_vars
SpecPark == Init /\ [][NextPark]_vars

\* ------------------------------------------------------------ claims, Spec
\* The seat is actively locked by the user.
HeldBy(s, u) == IsLocked(seat[s], now) /\ seat[s].locked_by = u
BookingSeats(bid) == Range(bookings[bid].seats_ids)

\* The seat's lock_expires_at has passed / has not passed at clock t.
Expired(st, t) == st.locked_by # None /\ st.lock_expires_at # NoTime /\ t >= st.lock_expires_at
Live(st, t) == st.locked_by # None /\ (st.lock_expires_at = NoTime \/ t < st.lock_expires_at)

\* C1: once a booking is confirmed its seats stay held: in every later state
\* Seats.lock by any other user on one of its seats is refused, and no two
\* confirmed bookings of different users share a seat. (Stated for the runs
\* in which no booking was ever cancelled.)
C1_ConfirmedSeatsStayHeld ==
  cancelled = {} =>
  /\ \A bid \in 1..Len(bookings) : \A s \in BookingSeats(bid) : \A u \in Users :
       (bookings[bid].confirmed /\ u # bookings[bid].user_id)
         => LockRefused(seat[s], u, now)
  /\ \A b1, b2 \in 1..Len(bookings) :
       (/\ bookings[b1].confirmed /\ bookings[b2].confirmed
        /\ bookings[b1].user_id # bookings[b2].user_id)
         => BookingSeats(b1) \cap BookingSeats(b2) = {}

\* C5: confirm_booking on a Pending booking (no booking was ever cancelled,
\* so only expiry or another user's lock can have ended its locks) succeeds only
\* if, at that instant, every seat of the booking is actively locked by the
\* booking's owner; otherwise it fails and the booking is not confirmed.
C5_ConfirmRequiresLiveLocks ==
  (ret.op = "confirm" /\ ret.ok /\ cancelled = {})
    => \A s \in BookingSeats(ret.bid) : HeldBy(s, bookings[ret.bid].user_id)

\* C6: a booking never leaves a terminal state: confirm_booking and
\* cancel_booking succeed neither on a booking cancel_booking has succeeded on
\* nor on a confirmed booking.
C6_TerminalStatesStay ==
  [][ (ret'.ok /\ ret'.op \in {"confirm", "cancel"})
        => (ret'.bid \notin cancelled /\ ~bookings[ret'.bid].confirmed) ]_vars

\* C11: a seat of another user's confirmed booking is reported unavailable by
\* check_seats_availability, and create_booking on it fails, whether or not
\* a lock on the seat is still active. (Stated for the runs in which no booking
\* was ever cancelled.)
C11_ConfirmedSetWins ==
  cancelled = {} =>
  /\ \A bid \in 1..Len(bookings) : \A s \in BookingSeats(bid) :
       \A u \in (Users \cup {None}) \ {bookings[bid].user_id} :
         bookings[bid].confirmed => Unavailable(<<s>>, seat, u, now) = <<s>>
  /\ (ret.op = "create" /\ ret.ok) =>
       \A bid \in 1..Len(bookings) :
         (bookings[bid].confirmed /\ bookings[bid].user_id # ret.user)
           => BookingSeats(bid) \cap Range(ret.ids) = {}

\* C15: cancel_booking by the owner on a Pending booking releases every seat
\* lock the booking holds: afterwards none of its seats has locked_by = owner,
\* and (when the locks were the booking's own) create_booking for the same
\* seats by a different user succeeds.
C15_CancelReleases ==
  [][ /\ (ret'.op = "cancel" /\ ret'.ok /\ ret'.bid \notin cancelled) =>
           LET b == bookings[ret'.bid]
           IN /\ ~b.confirmed /\ ret'.user = b.user_id
              /\ \A s \in Range(b.seats_ids) : seat'[s].locked_by # b.user_id
              /\ (\A s \in Range(b.seats_ids) : seat[s].locked_by = b.user_id)
                   => \A u \in Users \ {b.user_id} :
                        CreateOutcome(u, b.seats_ids, seat', bookings', now').r.ok
      /\ (/\ ret.op = "cancel" /\ ret.ok
          /\ ret'.op = "create" /\ ret'.user # ret.user
          /\ ret'.ids = bookings[ret.bid].seats_ids)
           => ret'.ok ]_vars

\* u1's booking of s1 and s2 was cancelled, and u2 then booked the same seats,
\* all before any lock could expire.
C15_Witness ==
  /\ now = 0
  /\ ret.op = "create" /\ ret.ok /\ ret.user = "u2" /\ ret.ids = <<"s1", "s2">>
  /\ \E bid \in cancelled :
       bookings[bid].user_id = "u1" /\ bookings[bid].seats_ids = ret.ids
  /\ HeldBy("s1", "u2") /\ HeldBy("s2", "u2")

\* C16: cancel_booking on a confirmed booking is rejected and changes nothing:
\* the booking stays confirmed and every seat keeps its lock.
C16_CancelConfirmedRejected ==
  [][ (ret'.op = "cancel" /\ Found(ret'.bid) /\ bookings[ret'.bid].confirmed)
        => /\ ~ret'.ok
           /\ bookings' = bookings /\ seat' = seat /\ cancelled' = cancelled ]_vars

\* The owner's cancel of its confirmed booking was refused; the seats are still held.
C16_Witness ==
  /\ ret.op = "cancel" /\ ~ret.ok /\ Found(ret.bid)
  /\ bookings[ret.bid].user_id = ret.user
  /\ bookings[ret.bid].confirmed /\ bookings[ret.bid].is_paid
  /\ ret.bid \notin cancelled
  /\ \A s \in BookingSeats(ret.bid) : HeldBy(s, ret.user)

\* The requested ids another user holds an unexpired lock on, or that are unknown.
Blocked(ids, u) ==
  {s \in Range(ids) :
     s \notin SeatIds \/ (Live(seat[s], now) /\ seat[s].locked_by # u)}

\* C17: create_booking for seats of which some are actively locked by another
\* user fails, reports exactly the requested seats that are unavailable,
\* creates no booking and changes no seat, the free requested seats included.
C17_UnavailableCreatesNothing ==
  [][ (/\ ret'.op = "create"
       /\ \E s \in Range(ret'.ids) \cap SeatIds :
            Live(seat[s], now) /\ seat[s].locked_by # ret'.user)
        => /\ ~ret'.ok /\ ret'.bid = 0 /\ ret'.err = "unavailable"
           /\ Range(ret'.list) = Blocked(ret'.ids, ret'.user)
           /\ bookings' = bookings /\ seat' = seat ]_vars

\* u2 asked for s1 (free) and s2 (held by u1): refused for [s2], s1 still free.
C17_Witness ==
  /\ ret.op = "create" /\ ~ret.ok /\ ret.user = "u2"
  /\ ret.ids = <<"s1", "s2">> /\ ret.list = <<"s2">>
  /\ HeldBy("s2", "u1")
  /\ seat["s1"] = FreeSeat
  /\ Len(bookings) = 1

\* C18: confirm_booking and cancel_booking by a user who is not the booking's
\* owner return the Unauthorized failure, those with an unknown booking_id the
\* not-found failure, and neither changes a booking or a seat.
C18_UnauthorizedChangesNothing ==
  [][ (/\ ret'.op \in {"confirm", "cancel"}
       /\ (~Found(ret'.bid) \/ bookings[ret'.bid].user_id # ret'.user))
        => /\ ~ret'.ok
           /\ ret'.err = IF Found(ret'.bid) THEN "unauthorized" ELSE "not_found"
           /\ bookings' = bookings /\ seat' = seat /\ cancelled' = cancelled ]_vars

\* u2's cancel of u1's pending booking was refused as unauthorized; u1 still
\* holds the seats.
C18_Witness ==
  /\ ret.op = "cancel" /\ ~ret.ok /\ ret.err = "unauthorized" /\ ret.user = "u2"
  /\ Found(ret.bid)
  /\ bookings[ret.bid].user_id = "u1" /\ ~bookings[ret.bid].confirmed
  /\ cancelled = {}
  /\ \A s \in BookingSeats(ret.bid) : HeldBy(s, "u1")

\* C23: a create_booking that succeeds appends one booking, the one it
\* returns, for the caller and the requested seats, not confirmed and not
\* paid; every seat of it is then locked by the caller, acquired at the time
\* of the call and expiring lock_duration_seconds later, which is still ahead.
C23_CreatedIsPending ==
  [][ (ret'.op = "create" /\ ret'.ok) =>
        /\ ret'.bid = Len(bookings) + 1
        /\ Len(bookings') = Len(bookings) + 1
        /\ \A i \in DOMAIN bookings : bookings'[i] = bookings[i]
        /\ LET b == bookings'[ret'.bid]
           IN /\ b.user_id = ret'.user /\ b.seats_ids = ret'.ids
              /\ ~b.confirmed /\ ~b.is_paid
              /\ ret'.bid \notin cancelled'
              /\ \A i \in DOMAIN b.seats_ids :
                   LET st == seat'[b.seats_ids[i]]
                   IN /\ st.locked_by = b.user_id
                      /\ st.locked_at = now'
                      /\ st.lock_expires_at = st.locked_at + LockDurationSeconds
                      /\ now' < st.lock_expires_at ]_vars

\* A booking of two seats has just been created, after the clock has moved,
\* one of the seats having been held by the caller since before.
C23_Witness ==
  /\ ret.op = "create" /\ ret.ok /\ Len(ret.ids) = 2
  /\ now > 0 /\ Len(bookings) = 2
  /\ bookings[1].user_id = ret.user
  /\ \E i \in DOMAIN ret.ids : ret.ids[i] \in Range(bookings[1].seats_ids)

\* C28: while a booking is neither confirmed nor cancelled and its lock
\* duration has not elapsed, every seat of it is locked by its owner, whatever
\* else has run. (Before the clock reaches lock_duration_seconds no booking's
\* duration has elapsed.)
C28_PendingSeatsStayLocked ==
  now < LockDurationSeconds =>
    \A bid \in DOMAIN bookings :
      (~bookings[bid].confirmed /\ bid \notin cancelled) =>
        \A s \in Range(bookings[bid].seats_ids) :
          Live(seat[s], now) /\ seat[s].locked_by = bookings[bid].user_id

\* --------------------------------------------------------- claims, SpecSeats
\* C7: when lock_seats returns (False, failed_ids), no seat of the batch is
\* locked by the caller, and failed_ids holds exactly the requested ids that
\* are absent from the catalog or locked by another user.
C7_FailedBatchHoldsNothing ==
  (ret.op = "lock_seats" /\ ~ret.ok)
    => /\ \A s \in Range(ret.ids) \cap SeatIds : seat[s].locked_by # ret.user
       /\ Range(ret.list) =
            {s \in Range(ret.ids) :
               s \notin SeatIds \/ LockRefused(seat[s], ret.user, now)}
       /\ ret.list # <<>>

\* {seat6, seat7} with seat7 held by another user: (False, [seat7]), seat6 free.
C7_Witness ==
  /\ ret.op = "lock_seats" /\ ~ret.ok /\ ret.user = "u1"
  /\ ret.ids = <<"s1", "s2">> /\ ret.list = <<"s2">>
  /\ HeldBy("s2", "u2")
  /\ ~IsLocked(seat["s1"], now)

\* C13: a lock whose lock_expires_at has passed counts as absent: the
\* availability check (with no user it is is_locked itself) lists exactly the
\* ids that are unknown or hold a lock not yet expired of someone else, and
\* Seats.lock by a different user succeeds and takes the seat over exactly
\* when the seat is free or its lock has expired; otherwise it changes nothing.
C13_ExpiredLockIsAbsent ==
  [][ /\ ret'.op = "check" =>
           /\ seat' = seat
           /\ Range(ret'.list) =
                {s \in Range(ret'.ids) :
                   \/ s \notin SeatIds
                   \/ /\ s \in SeatIds /\ Live(seat[s], now)
                      /\ (ret'.user = None \/ seat[s].locked_by # ret'.user)}
           /\ \A s \in Range(ret'.ids) \cap SeatIds :
                Expired(seat[s], now) => s \notin Range(ret'.list)
      /\ ret'.op = "lock" =>
           LET s == ret'.ids[1]
               u == ret'.user
           IN /\ (Expired(seat[s], now) /\ seat[s].locked_by # u)
                   => (ret'.ok /\ seat'[s].locked_by = u
                       /\ seat'[s].lock_expires_at = now + LockDurationSeconds)
              /\ (Live(seat[s], now) /\ seat[s].locked_by # u)
                   => (~ret'.ok /\ seat' = seat) ]_vars

\* s1 carries an expired lock of u1, and the check for u2 reported it available.
C13_Witness ==
  /\ ret.op = "check" /\ ret.user = "u2" /\ ret.ok
  /\ "s1" \in Range(ret.ids)
  /\ seat["s1"].locked_by = "u1"
  /\ Expired(seat["s1"], now)

\* Who holds the seat at clock t (None when it is free or its lock expired),
\* and until when.
Holder(st, t) == IF Live(st, t) THEN st.locked_by ELSE None
HeldUntil(st, t) == IF Live(st, t) THEN st.lock_expires_at ELSE NoTime

\* C29: a lock_seats call that returns failure leaves every seat's lock as it
\* was before the call: the same holder until the same time, the seats of the
\* batch the caller held already included.
C29_FailedBatchRestores ==
  [][ (ret'.op = "lock_seats" /\ ~ret'.ok) =>
        \A s \in SeatIds :
          /\ Holder(seat'[s], now') = Holder(seat[s], now)
          /\ HeldUntil(seat'[s], now') = HeldUntil(seat[s], now) ]_vars

\* ---------------------------------------------------------- claims, SpecRace
\* C2: two Seats.lock calls by different users on one seat never both return
\* True unless the first holder unlocked or its lock expired in between: no
\* seat has two successful lock returns in force for different users.
C2_MutualExclusion ==
  \A s \in SeatIds : \A g1, g2 \in grants[s] :
    g1.user # g2.user => ~(now < g1.exp /\ now < g2.exp)

\* Every thread has made one call, a lock_seats, and the clock has not moved.
BatchRaceOver ==
  /\ now = 0
  /\ \A t \in Threads :
       pc[t] = "idle" /\ Len(hist[t]) = 1 /\ hist[t][1].op = "lock_seats"
  /\ calls = Cardinality(Threads)

\* The results and the seats are those of a's call followed by b's.
SerialOrder(a, b) ==
  LET r1 == LockSeats(RaceUser(a), hist[a][1].ids, [s \in SeatIds |-> FreeSeat], 0)
      r2 == LockSeats(RaceUser(b), hist[b][1].ids, r1.seats, 0)
  IN /\ hist[a][1].ok = r1.ok /\ hist[a][1].list = r1.list
     /\ hist[b][1].ok = r2.ok /\ hist[b][1].list = r2.list
     /\ seat = r2.seats

\* C8: lock_seats is indivisible with respect to other lock_seats calls: the
\* results and the final lock state of concurrent calls are those of the calls
\* made in some serial order.
C8_BatchSerializable ==
  BatchRaceOver => \E a, b \in Threads : a # b /\ SerialOrder(a, b)

\* Thread t has had a Seats.lock on seat s return True, and no other thread
\* has made a call.
LockedOnce(t, s) ==
  /\ hist[t] # <<>>
  /\ hist[t][1].op = "lock" /\ hist[t][1].ok /\ hist[t][1].ids = <<s>>
  /\ \A o \in Threads \ {t} : pc[o] = "idle" /\ hist[o] = <<>>

\* C12: a later Seats.lock by the same user on the seat its first call
\* locked, the seat not released since, returns True, leaves locked_by that
\* user and leaves lock_expires_at no earlier than it was.
C12_RelockExtends ==
  [][ \A t \in Threads, s \in SeatIds :
        (/\ LockedOnce(t, s)
         /\ seat[s].locked_by = RaceUser(t)
         /\ pc[t] \in {"lock_check", "lock_set"} /\ loc[t].op = "lock"
         /\ loc[t].ids = <<s>>
         /\ pc'[t] = "idle")
          => /\ ret'.op = "lock" /\ ret'.ok
             /\ seat'[s].locked_by = RaceUser(t)
             /\ seat'[s].lock_expires_at >= seat[s].lock_expires_at ]_vars

\* t1 has locked s1 twice; the clock had moved before the second call.
C12_Witness ==
  /\ LockedOnce("t1", "s1")
  /\ calls = 2 /\ pc["t1"] = "idle"
  /\ ret.op = "lock" /\ ret.ok /\ ret.ids = <<"s1">>
  /\ seat["s1"].locked_by = "u1"
  /\ seat["s1"].locked_at = now /\ now > 0

\* ----------------------------------------------------------- claims, SpecSvc
\* Both threads' first calls were create_booking for the one seat s, for
\* different users, within the lock duration and with no cancellation.
TwoCreatesFor(s) ==
  /\ now < LockDurationSeconds
  /\ cancelled = {}
  /\ \A t \in Threads :
       Len(hist[t]) = 1 /\ hist[t][1].op = "create" /\ hist[t][1].ids = <<s>>
  /\ \A t1, t2 \in Threads : t1 # t2 => hist[t1][1].user # hist[t2][1].user

\* Thread w got the booking of seat s and (if it has asked to) confirmed it;
\* thread l got an error and no booking.
WonLost(w, l, s) ==
  LET rw == hist[w][1]
      rl == hist[l][1]
  IN /\ rw.ok /\ Found(rw.bid)
     /\ bookings[rw.bid].user_id = rw.user
     /\ bookings[rw.bid].seats_ids = <<s>>
     /\ (ret.op = "confirm" /\ ret.user = rw.user /\ ret.bid = rw.bid)
          => bookings[rw.bid].confirmed
     /\ ~rl.ok /\ rl.bid = 0 /\ rl.err \in {"unavailable", "lock_failed"}
     /\ \A b \in 1..Len(bookings) :
          s \in BookingSeats(b) => bookings[b].user_id # rl.user

\* C4: of two users' concurrent create_booking calls for the same single free
\* seat, exactly one gets a booking (which it can confirm) and the other an
\* error and no booking.
C4_ExactlyOneBooking ==
  \A s \in SeatIds :
    TwoCreatesFor(s) => \E w, l \in Threads : w # l /\ WonLost(w, l, s)

\* Both calls were waiting for BookingService.lock together; t2 got the
\* booking, t1 the error, and t2 has confirmed.
C4_Witness ==
  /\ TwoCreatesFor("s1")
  /\ WonLost("t2", "t1", "s1")
  /\ hist["t1"][1].err = "unavailable"
  /\ ret.op = "confirm" /\ ret.ok /\ ret.bid = hist["t2"][1].bid

\* ---------------------------------------------------------- claims, SpecRedis
\* C3: for any (showing, seat) the locked_seat keys never hold entries of two
\* different users at the same time, whatever lock requests were made.
C3_OneLockPerSeat ==
  \A k1, k2 \in redisKeys :
    (k1[1] = k2[1] /\ k1[2] = k2[2]) => k1[3] = k2[3]

\* C25: without a Redis client the lock store fails closed: a lock or unlock
\* request is answered with an error and no key is recorded, and the
\* seat-status read is answered with an error, not with an empty list of
\* locked seats.
C25_FailClosed ==
  [][ ~redis_client =>
        /\ resp'.op = "lock_seat" =>
             (resp'.status \in {401, 500} /\ redisKeys' = redisKeys /\ redisKeys' = {})
        /\ resp'.op = "get_all_booking_seats" => resp'.status = 500 ]_vars

\* A signed-in user's lock request has just been refused for want of Redis.
C25_Witness ==
  /\ ~redis_client
  /\ resp.op = "lock_seat" /\ resp.status = 500 /\ resp.user \in Users
  /\ redisKeys = {}

\* C26: locks are scoped by showing: a lock or unlock request for (showing,
\* seat) leaves the keys of every other showing as they were, and the listing
\* for a showing holds exactly the keys of that showing.
C26_ScopedByShowing ==
  [][ /\ resp'.op = "lock_seat" =>
           \A k \in (redisKeys \ redisKeys') \cup (redisKeys' \ redisKeys) :
             k[1] = resp'.showing /\ k[2] = resp'.seat
      /\ (resp'.op = "get_all_booking_seats" /\ resp'.status = 200) =>
           /\ \A k \in resp'.locked : k[1] = resp'.showing
           /\ \A k \in redisKeys : k[1] = resp'.showing => k \in resp'.locked
           /\ resp'.locked \subseteq redisKeys ]_vars

\* The listing for showing A has just been read: it holds a lock on s1 while
\* s1 is locked in showing B too.
C26_Witness ==
  /\ resp.op = "get_all_booking_seats" /\ resp.status = 200 /\ resp.showing = "A"
  /\ \E k \in resp.locked : k[2] = "s1"
  /\ \E k \in redisKeys : k[1] = "B" /\ k[2] = "s1"

RowsOf(booking_id) == {x \in BagToSet(seatRows) : x.booking_id = booking_id}

\* C9: a CONFIRMED bookings row has a booking_seats row for every seat its
\* request named.  Stated for the rows of requests that have been answered, so
\* that the time between the two commits of a request still running does not count.
C9_HeaderAndSeatsTogether ==
  \A b \in bookingRows :
    (b.status = "CONFIRMED" /\ req[b.id].pc = "done") =>
      \A s \in Range(req[b.id].ids) :
        BookingSeat(b.id, b.showing_id, s) \in RowsOf(b.id)

\* Two create_booking requests name the same seat of the same showing.
SameSeat(r1, r2) ==
  /\ r1 # r2
  /\ req[r1].showing = req[r2].showing
  /\ Range(req[r1].ids) \cap Range(req[r2].ids) # {}

\* C10: booking_seats never holds two rows with the same (showing_id, seat_id),
\* and of the create_booking requests naming the same seat of the same showing
\* at most one is answered with success.
C10_UniqueShowingSeat ==
  /\ \A x \in BagToSet(seatRows) : CopiesIn(x, seatRows) = 1
  /\ \A x, y \in BagToSet(seatRows) :
       (x.showing_id = y.showing_id /\ x.seat_id = y.seat_id) => x = y
  /\ \A r1, r2 \in Reqs :
       SameSeat(r1, r2) => ~(req[r1].status = 201 /\ req[r2].status = 201)

\* Two requests for the same seat both passed the checks; the constraint let
\* one commit its rows and refused the other.
C10_Witness ==
  \E r1, r2 \in Reqs :
    /\ SameSeat(r1, r2)
    /\ req[r1].pc = "done" /\ req[r1].status = 201
    /\ req[r2].pc = "done" /\ req[r2].status = 500
    /\ \A i, j \in DOMAIN req[r2].ids : req[r2].ids[i] = req[r2].ids[j] => i = j
    /\ calls = 0
    /\ \A s \in Range(req[r1].ids) :
         BookingSeat(r1, req[r1].showing, s) \in BagToSet(seatRows)

\* -------------------------------------------------------- claims, SpecRelease
\* C14: release removes a lock only if the caller owns it. A Seats.unlock
\* step on a seat whose locked_by is not the caller returns False and leaves
\* every seat as it was; a request to the Redis lock endpoint by user U
\* removes no key but U's own key of the seat it names.
C14_ReleaseOnlyOwn ==
  [][ /\ (ret'.op = "unlock" /\ UNCHANGED apiVars) =>
           LET s == ret'.ids[1]
               u == ret'.user
           IN /\ seat[s].locked_by # u => (~ret'.ok /\ seat' = seat)
              /\ \A o \in SeatIds \ {s} : seat'[o] = seat[o]
      /\ (resp'.op = "lock_seat" /\ UNCHANGED movieVars) =>
           \A k \in redisKeys \ redisKeys' :
             k = LockKey(resp'.showing, resp'.seat, resp'.user) ]_vars

\* u2's Seats.unlock on s1, locked by u1, returned False and s1 is still
\* u1's; and u1's unlock request removed u1's key of (A, s1) while u2's key
\* of the same seat is still there.
C14_Witness ==
  /\ ret.op = "unlock" /\ ret.user = "u2" /\ ret.ids = <<"s1">> /\ ~ret.ok
  /\ seat["s1"].locked_by = "u1" /\ seat["s1"].lock_expires_at = LockDurationSeconds
  /\ resp.op = "lock_seat" /\ resp.status = 201
  /\ resp.user = "u1" /\ resp.showing = "A" /\ resp.seat = "s1"
  /\ LockKey("A", "s1", "u1") \notin redisKeys
  /\ LockKey("A", "s1", "u2") \in redisKeys

\* -------------------------------------------------------- claims, SpecHotel
\* Two stays share a night.
Overlap(a, b) == \E d \in Dates : a.ci <= d /\ d < a.co /\ b.ci <= d /\ d < b.co

\* No room holds two bookings that are not cancelled and share a night.
NoOverbooking ==
  \A r \in Range(Rooms) : \A i, j \in DOMAIN inventory[r] :
    (i < j /\ inventory[r][i].status # "canceled" /\ inventory[r][j].status # "canceled")
      => ~Overlap(inventory[r][i], inventory[r][j])

\* C19: no room ever holds two overlapping bookings that are not cancelled,
\* and book_room returns None exactly when every room of the requested type
\* has a conflicting booking that is not cancelled: a call that returns None
\* had such an instant while it ran, a call that returns a booking had an
\* instant at which some room of the type had no conflict.
C19_NoOverbookingNoneIffFull ==
  /\ NoOverbooking
  /\ hret.t # None =>
       /\ hret.room = None => hret.full
       /\ hret.room # None => hret.free

\* ------------------------------------------------------ claims, SpecSvcFair
\* C20: under fair scheduling every create_booking, get_booking,
\* confirm_booking and cancel_booking call returns: the nesting of the
\* reentrant BookingService.lock around Bookings.lock never deadlocks, and a
\* create_booking that cannot get a seat returns a failure, it does not wait
\* for the seat.
C20_EveryCallReturns ==
  \A t \in Threads : (pc[t] # "idle") ~> (pc[t] = "idle")

\* One thread is inside Bookings.lock with BookingService.lock held; the
\* other has called create_booking for a seat somebody else holds and waits
\* for BookingService.lock.
C20_Witness ==
  \E t, o \in Threads :
    /\ pc[t] = "svc_enter" /\ loc[t].op = "create"
    /\ Unavailable(loc[t].ids, seat, loc[t].user, now) # <<>>
    /\ pc[o] = "bk_body" /\ svcLock.owner = o /\ bkLock[loc[o].bid] = o

\* --------------------------------------------------------- claims, SpecRead
\* C24: check_seats_availability reads only: whatever the ids and the user,
\* every seat's locked_by, locked_at and lock_expires_at and every booking
\* are afterwards what they were, and the flag it returns is True exactly
\* when the list it returns is empty.
C24_CheckIsPureRead ==
  [][ ret'.op = "check" =>
        /\ \A s \in SeatIds :
             /\ seat'[s].locked_by = seat[s].locked_by
             /\ seat'[s].locked_at = seat[s].locked_at
             /\ seat'[s].lock_expires_at = seat[s].lock_expires_at
        /\ bookings' = bookings /\ cancelled' = cancelled /\ now' = now
        /\ ret'.ok <=> (ret'.list = <<>>) ]_vars

\* A check has just found a seat unavailable while another seat still
\* carries an expired lock, and a booking exists.
C24_Witness ==
  /\ ret.op = "check" /\ ~ret.ok /\ ret.list # <<>>
  /\ bookings # <<>>
  /\ \E s \in Range(ret.ids) \cap SeatIds : Live(seat[s], now)
  /\ \E s \in SeatIds : Expired(seat[s], now)

\* ------------------------------------------------------ claims, SpecSvcLive
\* The threads whose confirm_booking of booking bid has succeeded: the result
\* is computed and the call not yet returned, or it was the thread's first
\* call to return.
ConfirmSucceeded(bid) ==
  {t \in Threads :
     \/ pc[t] # "idle" /\ loc[t].op = "confirm" /\ loc[t].bid = bid /\ loc[t].r.ok
     \/ /\ hist[t] # <<>>
        /\ hist[t][1].op = "confirm" /\ hist[t][1].bid = bid /\ hist[t][1].ok}

\* C27: however confirm_booking calls on one booking interleave, at most one
\* of them succeeds; a confirm by the owner on a booking already confirmed
\* gets False, and the bookings and the seats stay as they were.
C27_ConfirmAtMostOnce ==
  /\ [](\A bid \in 1..MaxBookings : Cardinality(ConfirmSucceeded(bid)) <= 1)
  /\ [][ /\ \A t \in Threads :
            (/\ pc[t] = "bk_body" /\ loc[t].op = "confirm" /\ pc'[t] = "bk_exit"
             /\ bookings[loc[t].bid].confirmed)
              => (/\ ~loc'[t].r.ok /\ loc'[t].r.op = "confirm"
                  /\ bookings' = bookings /\ seat' = seat)
         /\ (ret'.op = "confirm" /\ ret'.ok) =>
              (\E t \in Threads : pc[t] = "svc_exit" /\ pc'[t] = "idle" /\ loc[t].r = ret')
         /\ \A t \in Threads :
              (pc[t] = "svc_exit" /\ pc'[t] = "idle") => ret' = loc[t].r ]_vars

\* One thread's confirm of booking 1 succeeded, and the owner's confirm made
\* by the other thread has just returned False.
C27_Witness ==
  /\ Len(bookings) >= 1 /\ bookings[1].confirmed
  /\ ret.op = "confirm" /\ ret.bid = 1 /\ ~ret.ok /\ ret.err = None
  /\ ret.user = bookings[1].user_id
  /\ Cardinality(ConfirmSucceeded(1)) = 1

\* --------------------------------------------------------- claims, SpecPark
\* The tickets that reference spot s.
TicketsOn(s) == {id \in DOMAIN active_tickets : active_tickets[id].spot = s}

\* C21: a spot is reserved by one vehicle at a time: no two active tickets
\* reference the same spot, and, whenever no call is inside ParkingLot.lock, a
\* spot has is_available = False exactly when one active ticket references
\* it, and then it holds that ticket's vehicle.
C21_OneVehiclePerSpot ==
  /\ \A s \in Range(SpotIds) : Cardinality(TicketsOn(s)) <= 1
  /\ lotLock = None =>
       \A s \in Range(SpotIds) :
         /\ ~spots[s].is_available <=> Cardinality(TicketsOn(s)) = 1
         /\ \A id \in TicketsOn(s) :
              /\ active_tickets[id].status = "active"
              /\ spots[s].vehicle = active_tickets[id].vehicle
         /\ spots[s].is_available => spots[s].vehicle = None

\* Two cars are parked on the two medium spots after the first ticket was
\* used to leave, and nobody is inside the lock.
C21_Witness ==
  /\ lotLock = None
  /\ exits[1] = 1
  /\ Cardinality(DOMAIN active_tickets) = 2
  /\ \A s \in {"1-2", "2-2"} : ~spots[s].is_available /\ spots[s].vehicle = "car"

\* C30: exit_vehicle succeeds at most once per ticket. A successful exit
\* frees exactly the ticket's spot and removes the ticket; an exit with a used
\* or unknown ticket id or through a gate that is not an EXIT gate, and a
\* park through a gate that is not an ENTRY gate or with no fitting spot
\* free, raise and leave every spot and the active tickets as they were.
C30_ExitOnce ==
  /\ [](\A id \in TicketIds : exits[id] <= 1)
  /\ [][ pret'.t # None =>
           /\ ~pret'.ok =>
                /\ spots' = spots /\ active_tickets' = active_tickets
                /\ exits' = exits
                /\ pret'.snap # NoSnap =>
                     /\ spots' = pret'.snap.spots
                     /\ active_tickets' = pret'.snap.active_tickets
           /\ pret'.op = "exit" =>
                /\ pret'.ok <=>
                     /\ pret'.gate = "exit"
                     /\ pret'.snap # NoSnap
                     /\ pret'.ticket \in DOMAIN pret'.snap.active_tickets
                /\ pret'.ok =>
                     LET was == pret'.snap.active_tickets
                         id == pret'.ticket
                     IN /\ DOMAIN active_tickets' = DOMAIN was \ {id}
                        /\ \A i \in DOMAIN active_tickets' : active_tickets'[i] = was[i]
                        /\ \A s \in Range(SpotIds) :
                             spots'[s] = IF s = was[id].spot THEN FreeSpot
                                         ELSE pret'.snap.spots[s]
           /\ pret'.op = "park" =>
                pret'.ok <=>
                  /\ pret'.gate = "entry"
                  /\ pret'.snap # NoSnap
                  /\ \E s \in Range(SpotIds) :
                       pret'.snap.spots[s].is_available /\ CanFit(s, pret'.vehicle) ]_vars

\* Ticket 1 was used to leave, and a second exit_vehicle with it has just
\* raised 'Ticket not found' while another car is parked.
C30_Witness ==
  /\ exits[1] = 1
  /\ pret.op = "exit" /\ pret.ticket = 1 /\ pret.gate = "exit"
  /\ ~pret.ok /\ pret.err = "Ticket not found"
  /\ active_tickets # <<>>

====
